---------------------------- MODULE Spec2Model ----------------------------
(***************************************************************************)
(* Model of the forecasting and risk-analytics engine of the investment    *)
(* tracker backend (backend/app/services/ml_service.py) and of the route   *)
(* layer that calls it (backend/app/routes/analysis.py).                   *)
(*                                                                         *)
(* Real numbers.  Python floats are modelled as fixed-point integers: one  *)
(* price unit is UNIT ticks, one hundredth of a unit (the resolution of    *)
(* round(x, 2)) is CENT ticks.  Products and quotients are floored to a    *)
(* tick.  Day counts, row counts and indices are plain integers.           *)
(***************************************************************************)
EXTENDS Integers, Sequences, FiniteSets, TLC

(***************************************************************************)
(* Fixed-point arithmetic                                                  *)
(***************************************************************************)
CENT == 10

UNIT == 100 * CENT

Abs(a) == IF a < 0 THEN 0 - a ELSE a

Max2(a, b) == IF a >= b THEN a ELSE b

Min2(a, b) == IF a <= b THEN a ELSE b

\* floor(a * b / UNIT), split so that no intermediate leaves 32 bits
MulFP(a, b) == (a \div UNIT) * b + ((a % UNIT) * b) \div UNIT

\* floor(a * UNIT / b) for b > 0, split so that no intermediate leaves 32
\* bits (to three digits less when both are too large for that)
DivPos(a, b) ==
    IF Abs(a) < 2000000000 \div UNIT THEN (a * UNIT) \div b
    ELSE IF b < 2000000000 \div UNIT THEN (a \div b) * UNIT + ((a % b) * UNIT) \div b
    ELSE a \div (b \div UNIT)

\* floor(a * UNIT / b) for b # 0
DivFP(a, b) == IF b > 0 THEN DivPos(a, b) ELSE DivPos(0 - a, 0 - b)

RECURSIVE ISqrtIn(_, _, _)
ISqrtIn(n, lo, hi) ==
    IF lo >= hi THEN lo
    ELSE LET mid == (lo + hi + 1) \div 2
         IN  IF mid * mid <= n THEN ISqrtIn(n, mid, hi) ELSE ISqrtIn(n, lo, mid - 1)

\* floor(sqrt(n)) for 0 <= n < 2^31
ISqrt(n) == ISqrtIn(n, 0, 46340)

\* square root of a fixed-point value (to a tick, or to ten ticks where the
\* finer root would leave 32 bits)
SqrtFP(v) == IF v < 2000000000 \div UNIT THEN ISqrt(v * UNIT) ELSE 10 * ISqrt(v * CENT)

RECURSIVE SumSeq(_)
SumSeq(s) == IF s = <<>> THEN 0 ELSE Head(s) + SumSeq(Tail(s))

\* np.mean / Series.mean
Mean(s) == SumSeq(s) \div Len(s)

SqDevs(s) == LET m == Mean(s) IN [i \in 1..Len(s) |-> MulFP(s[i] - m, s[i] - m)]

\* Series.std(): sample standard deviation (ddof = 1)
StdSample(s) == SqrtFP(SumSeq(SqDevs(s)) \div (Len(s) - 1))

\* np.std(): population standard deviation (ddof = 0)
StdPop(s) == SqrtFP(SumSeq(SqDevs(s)) \div Len(s))

\* round(x, 2): to the nearest hundredth, ties to the even hundredth
Round2(x) ==
    LET q == x \div CENT
        r == x % CENT
    IN  IF 2 * r < CENT THEN q * CENT
        ELSE IF 2 * r > CENT THEN (q + 1) * CENT
        ELSE IF q % 2 = 0 THEN q * CENT ELSE (q + 1) * CENT

\* the elements of s that satisfy Keep, in order
RECURSIVE SelectIdx(_, _, _)
SelectIdx(s, keep, i) ==
    IF i > Len(s) THEN <<>>
    ELSE (IF keep[i] THEN <<s[i]>> ELSE <<>>) \o SelectIdx(s, keep, i + 1)

Count(s, P(_)) == Cardinality({i \in 1..Len(s) : P(s[i])})

(***************************************************************************)
(* MLService._preprocess_data                                              *)
(*                                                                         *)
(* A raw frame is [cols, rows]; a raw row is                               *)
(*   [date  |-> day number, dok |-> the date string parses,                *)
(*    close |-> ticks,      cnull |-> the close is null].                  *)
(* A cleaned row is [date, close].                                         *)
(***************************************************************************)
MinCleanRows == 10

ClipMinRows == 10

ZLimit == 3

\* pd.to_datetime(errors='coerce') then dropna(subset=['date'])
DropBadDates(rows) == SelectIdx(rows, [i \in 1..Len(rows) |-> rows[i].dok], 1)

\* Series.interpolate(method='linear'): a null between two values is filled
\* on the straight line between them (rows equally spaced), a trailing null
\* takes the last value, a leading null stays null
InterpolateLinear(rows) ==
    LET n == Len(rows)
        Prev(k) == {p \in 1..(k - 1) : ~rows[p].cnull}
        Next(k) == {q \in (k + 1)..n : ~rows[q].cnull}
        MaxOf(S) == CHOOSE x \in S : \A y \in S : y <= x
        MinOf(S) == CHOOSE x \in S : \A y \in S : x <= y
        Fill(k) ==
            IF ~rows[k].cnull \/ Prev(k) = {} THEN rows[k]
            ELSE LET p == MaxOf(Prev(k))
                 IN  IF Next(k) = {}
                     THEN [rows[k] EXCEPT !.close = rows[p].close, !.cnull = FALSE]
                     ELSE LET q == MinOf(Next(k))
                              v == rows[p].close
                                   + ((rows[q].close - rows[p].close) * (k - p)) \div (q - p)
                          IN  [rows[k] EXCEPT !.close = v, !.cnull = FALSE]
    IN  [k \in 1..n |-> Fill(k)]

\* df.loc[df['close'] == 0, 'close'] = np.nan
ZerosToNull(rows) ==
    [k \in 1..Len(rows) |->
        IF ~rows[k].cnull /\ rows[k].close = 0
        THEN [rows[k] EXCEPT !.cnull = TRUE] ELSE rows[k]]

\* step 4: nulls are interpolated first (a zero still counts as a value),
\* then zeros are made null and interpolated
FillPrices(rows) ==
    LET null_prices == Count(rows, LAMBDA r : r.cnull)
        zero_prices == Count(rows, LAMBDA r : ~r.cnull /\ r.close = 0)
        a == IF null_prices > 0 THEN InterpolateLinear(rows) ELSE rows
    IN  IF zero_prices > 0 THEN InterpolateLinear(ZerosToNull(a)) ELSE a

\* df.dropna(subset=['close'])
DropNullPrices(rows) == SelectIdx(rows, [i \in 1..Len(rows) |-> ~rows[i].cnull], 1)

Closes(rows) == [i \in 1..Len(rows) |-> rows[i].close]

\* np.abs((close - mean) / std) > 3, for std > 0 (the quotient is compared
\* exactly)
IsOutlier(x, mean_price, std_price) == Abs(x - mean_price) > ZLimit * std_price

\* Series.clip(lower, upper)
Clip(x, lower, upper) == IF x < lower THEN lower ELSE IF x > upper THEN upper ELSE x

\* (mutant) outliers are removed instead of clipped
ClipOutliers_Drop(rows) ==
    IF Len(rows) > ClipMinRows /\ StdSample(Closes(rows)) > 0
    THEN SelectIdx(rows, [k \in 1..Len(rows) |->
             ~IsOutlier(rows[k].close, Mean(Closes(rows)), StdSample(Closes(rows)))], 1)
    ELSE rows

\* step 6: outliers beyond 3 standard deviations are clipped to the band
ClipOutliers(rows) ==
    IF Len(rows) > ClipMinRows
    THEN LET mean_price == Mean(Closes(rows))
             std_price  == StdSample(Closes(rows))
             outliers   == Count(rows, LAMBDA r : IsOutlier(r.close, mean_price, std_price))
         IN  IF std_price > 0 /\ outliers > 0
             THEN [k \in 1..Len(rows) |->
                      [rows[k] EXCEPT !.close =
                          Clip(rows[k].close, mean_price - ZLimit * std_price,
                                              mean_price + ZLimit * std_price)]]
             ELSE rows
    ELSE rows

NumOutliers(rows) ==
    IF Len(rows) > ClipMinRows
    THEN LET mean_price == Mean(Closes(rows))
             std_price  == StdSample(Closes(rows))
         IN  IF std_price > 0
             THEN Count(rows, LAMBDA r : IsOutlier(r.close, mean_price, std_price))
             ELSE 0
    ELSE 0

\* df.sort_values('date'): rows in ascending date order.  The sort is not a
\* stable one, so the order of rows of equal date is the library's choice:
\* tie is "keep" (they keep their order) or "flip" (they are reversed)
Ties == {"keep", "flip"}

RECURSIVE InsertByDate(_, _, _)
InsertByDate(sorted, r, tie) ==
    IF sorted = <<>> THEN <<r>>
    ELSE IF Head(sorted).date < r.date \/ (tie = "keep" /\ Head(sorted).date = r.date)
         THEN <<Head(sorted)>> \o InsertByDate(Tail(sorted), r, tie)
         ELSE <<r>> \o sorted

RECURSIVE SortByDateIn(_, _, _, _)
SortByDateIn(rows, i, acc, tie) ==
    IF i > Len(rows) THEN acc
    ELSE SortByDateIn(rows, i + 1, InsertByDate(acc, rows[i], tie), tie)

SortByDate(rows, tie) == SortByDateIn(rows, 1, <<>>, tie)

\* (mutant) the parse lands a day late, as a time-zone conversion would
ParsedDate_DayLate(r) == r.date + 1

\* pd.to_datetime of a date string that parses: the day it names
ParsedDate(r) == r.date

StripRow(r) == [date |-> ParsedDate(r), close |-> r.close]

\* a cleaned table read back as a frame (every date parses, no close is null)
AsFrame(df) ==
    [cols |-> {"date", "close"},
     rows |-> [k \in 1..Len(df) |->
                 [date |-> df[k].date, dok |-> TRUE, close |-> df[k].close, cnull |-> FALSE]]]

\* the whole function: [err, df, warnings]; err is "" on success, else the
\* message of the ValueError raised
\* a loss warning that also fires at exactly 70%
DataLoss_Inclusive(final_len, original_len) == 10 * final_len <= 7 * original_len

\* final_len < original_len * 0.7
DataLoss(final_len, original_len) == 10 * final_len < 7 * original_len

preprocess_data(frame, tie) ==
    IF ~({"date", "close"} \subseteq frame.cols)
    THEN [err |-> "missing_column", df |-> <<>>, warnings |-> <<>>]
    ELSE
    LET original_len == Len(frame.rows)
        null_dates   == Count(frame.rows, LAMBDA r : ~r.dok)
        dated        == DropBadDates(frame.rows)
        null_prices  == Count(dated, LAMBDA r : r.cnull)
        zero_prices  == Count(dated, LAMBDA r : ~r.cnull /\ r.close = 0)
        priced       == DropNullPrices(FillPrices(dated))
        outliers     == NumOutliers(priced)
        clipped      == ClipOutliers(priced)
        sorted       == SortByDate(clipped, tie)
        final_len    == Len(sorted)
        w1 == IF null_dates > 0 THEN <<"invalid_dates">> ELSE <<>>
        w2 == IF null_prices > 0 THEN <<"null_prices">> ELSE <<>>
        w3 == IF zero_prices > 0 THEN <<"zero_prices">> ELSE <<>>
        w4 == IF outliers > 0 THEN <<"outliers_clipped">> ELSE <<>>
        w5 == IF DataLoss(final_len, original_len) THEN <<"data_loss">> ELSE <<>>
    IN  IF final_len < MinCleanRows
        THEN [err |-> "insufficient_after_cleaning", df |-> <<>>, warnings |-> <<>>]
        ELSE [err |-> "",
              df |-> [k \in 1..final_len |-> StripRow(sorted[k])],
              warnings |-> w1 \o w2 \o w3 \o w4 \o w5]

(***************************************************************************)
(* MLService._create_features                                              *)
(*                                                                         *)
(* A cell of the feature table is [nan, v]: missing, or the value v.       *)
(***************************************************************************)
NaN == [nan |-> TRUE, v |-> 0]

Val(x) == [nan |-> FALSE, v |-> x]

\* natural logarithm of a / b for a, b > 0: 2 * atanh((a - b) / (a + b)),
\* summed to the 29th power
RECURSIVE LnSeries(_, _, _, _)
LnSeries(z, zk, k, acc) ==
    IF k > 29 \/ zk = 0 THEN acc
    ELSE LnSeries(z, MulFP(MulFP(zk, z), z), k + 2, acc + zk \div k)

LnRatio(a, b) == LET z == DivFP(a - b, a + b) IN 2 * LnSeries(z, z, 1, 0)

SubSeq1(s, lo, hi) == [j \in 1..(hi - lo + 1) |-> s[lo + j - 1]]

\* Series.shift(k)
Shifted(c, k, i) == IF i <= k THEN NaN ELSE Val(c[i - k])

\* Series.rolling(window=w).mean()
RollingMean(c, w, i) == IF i < w THEN NaN ELSE Val(Mean(SubSeq1(c, i - w + 1, i)))

\* Series.rolling(window=w).std()
RollingStd(c, w, i) == IF i < w THEN NaN ELSE Val(StdSample(SubSeq1(c, i - w + 1, i)))

\* np.log(close / close.shift(1))
LogReturn(c, i) ==
    IF i = 1 \/ c[i] <= 0 \/ c[i - 1] <= 0 THEN NaN ELSE Val(LnRatio(c[i], c[i - 1]))

\* log_return.rolling(window=10).std() * np.sqrt(252)
Volatility(c, i) ==
    IF i < 10 \/ \E j \in (i - 9)..i : LogReturn(c, j).nan THEN NaN
    ELSE Val(MulFP(StdSample([j \in 1..10 |-> LogReturn(c, i - 10 + j).v]),
                   SqrtFP(252 * UNIT)))

\* delta.where(delta > 0, 0) and -delta.where(delta < 0, 0): the missing
\* first difference counts as 0
Gain(c, i) == IF i > 1 /\ c[i] > c[i - 1] THEN c[i] - c[i - 1] ELSE 0

Loss(c, i) == IF i > 1 /\ c[i] < c[i - 1] THEN c[i - 1] - c[i] ELSE 0

\* 100 - 100 / (1 + gain / loss.replace(0, nan)) over a 14-row window
Rsi(c, i) ==
    IF i < 14 THEN NaN
    ELSE LET gain == Mean([j \in 1..14 |-> Gain(c, i - 14 + j)])
             loss == Mean([j \in 1..14 |-> Loss(c, i - 14 + j)])
         IN  IF loss = 0 THEN NaN
             ELSE Val(100 * UNIT - DivFP(100 * UNIT, UNIT + DivFP(gain, loss)))

\* the columns when each window only has to fit the table
FeatureColumns_WindowFits(n) ==
    {"days", "log_return", "cumulative_return", "day_of_week"}
    \cup {f \in {"lag_1"} : n >= 1} \cup {f \in {"lag_3"} : n >= 3}
    \cup {f \in {"lag_5"} : n >= 5} \cup {f \in {"lag_7"} : n >= 7}
    \cup {f \in {"rolling_mean_5", "rolling_std_5"} : n >= 5}
    \cup {f \in {"rolling_mean_10", "rolling_std_10"} : n >= 10}
    \cup {f \in {"rolling_mean_20", "rolling_std_20"} : n >= 20}
    \cup {f \in {"volatility"} : n >= 10}
    \cup {f \in {"momentum_5"} : n >= 5}
    \cup {f \in {"rsi"} : n >= 14}

\* the columns _create_features adds to a table of n rows
FeatureColumns(n) ==
    {"days", "log_return", "cumulative_return", "day_of_week"}
    \cup {f \in {"lag_1"} : n > 1} \cup {f \in {"lag_3"} : n > 3}
    \cup {f \in {"lag_5"} : n > 5} \cup {f \in {"lag_7"} : n > 7}
    \cup {f \in {"rolling_mean_5", "rolling_std_5"} : n > 5}
    \cup {f \in {"rolling_mean_10", "rolling_std_10"} : n > 10}
    \cup {f \in {"rolling_mean_20", "rolling_std_20"} : n > 20}
    \cup {f \in {"volatility"} : n > 10}
    \cup {f \in {"momentum_5"} : n > 5}
    \cup {f \in {"rsi"} : n > 14}

MinDate(df) == CHOOSE d \in {df[i].date : i \in 1..Len(df)} :
                  \A j \in 1..Len(df) : d <= df[j].date

\* Timestamp.dayofweek / datetime.weekday(): day 0 of the model is a Monday
Weekday(date) == date % 7

\* the cell of column f at row i
Feature(df, f, i) ==
    LET c == Closes(df)
    IN  CASE f = "days"              -> Val(df[i].date - MinDate(df))
          [] f = "lag_1"             -> Shifted(c, 1, i)
          [] f = "lag_3"             -> Shifted(c, 3, i)
          [] f = "lag_5"             -> Shifted(c, 5, i)
          [] f = "lag_7"             -> Shifted(c, 7, i)
          [] f = "rolling_mean_5"    -> RollingMean(c, 5, i)
          [] f = "rolling_mean_10"   -> RollingMean(c, 10, i)
          [] f = "rolling_mean_20"   -> RollingMean(c, 20, i)
          [] f = "rolling_std_5"     -> RollingStd(c, 5, i)
          [] f = "rolling_std_10"    -> RollingStd(c, 10, i)
          [] f = "rolling_std_20"    -> RollingStd(c, 20, i)
          [] f = "log_return"        -> LogReturn(c, i)
          [] f = "cumulative_return" -> Val(100 * (DivFP(c[i], c[1]) - UNIT))
          [] f = "volatility"        -> Volatility(c, i)
          [] f = "day_of_week"       -> Val(Weekday(df[i].date))
          [] f = "momentum_5"        -> IF i <= 5 THEN NaN ELSE Val(c[i] - c[i - 5])
          [] f = "rsi"               -> Rsi(c, i)

\* the feature table: the columns present and every cell
create_features(df) ==
    [cols |-> FeatureColumns(Len(df)),
     cell |-> [f \in FeatureColumns(Len(df)) |-> [i \in 1..Len(df) |-> Feature(df, f, i)]]]

(***************************************************************************)
(* MLService._select_features                                              *)
(***************************************************************************)
potential_features ==
    <<"days", "lag_1", "lag_3", "lag_5", "lag_7",
      "rolling_mean_5", "rolling_mean_10", "rolling_mean_20",
      "rolling_std_5", "rolling_std_10", "momentum_5", "rsi", "volatility",
      "day_of_week">>

RecentRows == 10

MinRecentValid == 5

\* the same test asking for more than 5
HasRecentValues_Strict(tab, n, f) ==
    Cardinality({i \in Max2(1, n - RecentRows + 1)..n : ~tab.cell[f][i].nan}) > MinRecentValid

\* df[feat].iloc[-10:].notna().sum() >= 5
HasRecentValues(tab, n, f) ==
    Cardinality({i \in Max2(1, n - RecentRows + 1)..n : ~tab.cell[f][i].nan}) >= MinRecentValid

select_features(tab, n) ==
    LET keep == [k \in 1..Len(potential_features) |->
                    /\ potential_features[k] \in tab.cols
                    /\ HasRecentValues(tab, n, potential_features[k])]
        selected == SelectIdx(potential_features, keep, 1)
    IN  IF selected # <<>> THEN selected ELSE <<"days">>

(***************************************************************************)
(* Histories: the price lists the retrieval layer hands to the engine.     *)
(* A family of daily series, each a base shape with one defect.            *)
(***************************************************************************)
BaseClose(base, n, i) ==
    CASE base = "flat"    -> 2 * UNIT
      [] base = "linear"  -> (99 + i) * UNIT
      [] base = "zigzag"  -> 10 * UNIT + (IF i % 2 = 0 THEN UNIT ELSE 0 - UNIT)
      [] base = "decline" -> (n + 2 - i) * UNIT + (IF i % 2 = 0 THEN UNIT ELSE 0 - UNIT)

BaseRow(base, n, i) ==
    [date |-> i, dok |-> TRUE, close |-> BaseClose(base, n, i), cnull |-> FALSE]

\* the defect mod applied to row i of the base series, at position p
ModRow(base, n, mod, p, i) ==
    LET r == BaseRow(base, n, i)
    IN  CASE mod = "spike"    /\ i = p     -> [r EXCEPT !.close = 10 * r.close]
          [] mod = "null"     /\ i = p     -> [r EXCEPT !.cnull = TRUE]
          [] mod = "zero"     /\ i = p     -> [r EXCEPT !.close = 0]
          [] mod = "nullzero" /\ i = p     -> [r EXCEPT !.cnull = TRUE]
          [] mod = "nullzero" /\ i = p + 1 -> [r EXCEPT !.close = 0]
          [] mod = "leadnull" /\ i = 1     -> [r EXCEPT !.cnull = TRUE]
          [] mod = "baddate"  /\ i = p     -> [r EXCEPT !.dok = FALSE]
          [] mod = "bad7"     /\ i <= 7    -> [r EXCEPT !.dok = FALSE]
          [] mod = "bad6"     /\ i <= 6    -> [r EXCEPT !.dok = FALSE]
          [] mod = "dupdate"  /\ i = p     -> [r EXCEPT !.date = p - 1]
          [] mod = "swap"     /\ i = p     -> BaseRow(base, n, p + 1)
          [] mod = "swap"     /\ i = p + 1 -> BaseRow(base, n, p)
          [] OTHER -> r

MkFrame(base, n, mod, p) ==
    [cols |-> IF mod = "nodate" THEN {"close"}
              ELSE IF mod = "noclose" THEN {"date"} ELSE {"date", "close"},
     rows |-> [i \in 1..n |-> ModRow(base, n, mod, p, i)]]

(***************************************************************************)
(* MLService.predict_prices: the steps of one call, as functions of the    *)
(* call's local variables and of the instance attributes it reads          *)
(***************************************************************************)
None == [some |-> FALSE, v |-> 0]

Some(x) == [some |-> TRUE, v |-> x]

MinRawPoints == 15

MinTrainRows == 10

\* the histories price_service.get_history can hand back: nothing, a record
\* without prices, or a record with a price list
NoHistory == [kind |-> "none"]

EmptyHistory == [kind |-> "empty"]

History(frame) == [kind |-> "prices", frame |-> frame]

\* price_service.get_history raises instead of returning
FailedFetch == [kind |-> "raises"]

\* the result returned on a failure: no predictions, the message, and the
\* warnings gathered so far
ErrorResult(msg, warnings) == [kind |-> "error", error |-> msg, warnings |-> warnings]

\* df.dropna(subset=feature_cols + ['close']): the rows with every selected
\* feature present
TrainRows(tab, n, feature_cols) ==
    [i \in 1..n |-> \A k \in 1..Len(feature_cols) : ~tab.cell[feature_cols[k]][i].nan]

\* steps 1 to 5: fetch, the three early returns, cleaning, features,
\* selection and the training set.  raised is the exception that left the
\* block ("" when none did), ret the early return (kind "none" when the call
\* goes on)
prepare(hist, tie) ==
    IF hist.kind = "raises"
    THEN [raised |-> "FetchError", msg |-> "fetch_failed", warnings |-> <<>>]
    ELSE IF hist.kind = "none"
    THEN [raised |-> "", ret |-> ErrorResult("no_history", <<>>)]
    ELSE IF hist.kind = "empty"
    THEN [raised |-> "", ret |-> ErrorResult("no_prices", <<>>)]
    ELSE IF Len(hist.frame.rows) < MinRawPoints
    THEN [raised |-> "", ret |-> ErrorResult("insufficient_points", <<>>)]
    ELSE
    LET pre == preprocess_data(hist.frame, tie)
    IN  IF pre.err # ""
        THEN [raised |-> "ValueError", msg |-> pre.err, warnings |-> <<>>]
        ELSE
        LET df   == pre.df
            n    == Len(df)
            tab  == create_features(df)
            feature_cols == select_features(tab, n)
            keep == TrainRows(tab, n, feature_cols)
            df_train == SelectIdx(df, keep, 1)
            days == SelectIdx([i \in 1..n |-> tab.cell["days"][i].v], keep, 1)
            m == Len(df_train)
        IN  IF m < MinTrainRows
            THEN [raised |-> "", ret |-> ErrorResult("insufficient_after_features", pre.warnings)]
            ELSE [raised |-> "", ret |-> [kind |-> "none"],
                  warnings |-> pre.warnings,
                  feature_cols |-> feature_cols,
                  x_days |-> days,
                  y |-> Closes(df_train),
                  last_row |-> LET last == CHOOSE i \in 1..n :
                                               keep[i] /\ \A j \in (i + 1)..n : ~keep[j]
                               IN  [k \in 1..Len(feature_cols) |->
                                       tab.cell[feature_cols[k]][last].v],
                  last_date |-> df_train[m].date,
                  max_date |-> CHOOSE d \in {df_train[i].date : i \in 1..m} :
                                  \A j \in 1..m : df_train[j].date <= d]

\* SimpleScaler / StandardScaler fitted on one column: mean_ and std_, a
\* zero std_ replaced by 1
FitScaler(col) ==
    LET sd == StdPop(col)
    IN  [mean_ |-> Mean(col), std_ |-> IF sd = 0 THEN UNIT ELSE sd]

\* scaler.transform and scaler.inverse_transform of one value
Transform(scaler, x) == DivFP(x - scaler.mean_, scaler.std_)

InverseTransform(scaler, x) == MulFP(x, scaler.std_) + scaler.mean_

\* scaler_X after fit_transform(X): the number of columns it was fitted on
\* and the statistics of the days column
FitScalerX(feature_cols, x_days) ==
    [n_features |-> Len(feature_cols)] @@ FitScaler([i \in 1..Len(x_days) |-> x_days[i] * UNIT])

\* the fallback fit: least squares of close on days
FitSimple(feature_cols, x_days, y) ==
    LET n == Len(x_days)
        x == [i \in 1..n |-> x_days[i] * UNIT]
        x_mean == Mean(x)
        y_mean == Mean(y)
        numerator   == SumSeq([i \in 1..n |-> MulFP(x[i] - x_mean, y[i] - y_mean)])
        denominator == SumSeq([i \in 1..n |-> MulFP(x[i] - x_mean, x[i] - x_mean)])
        slope == IF denominator # 0 THEN DivFP(numerator, denominator) ELSE 0
    IN  [slope |-> slope, intercept |-> y_mean - MulFP(slope, x_mean),
         days_idx |-> (CHOOSE k \in 1..Len(feature_cols) : feature_cols[k] = "days") - 1]

\* the fallback line without its intercept
PredictSimple_SlopeOnly(attr, days) == attr.slope * days

\* self._simple_slope * days + self._simple_intercept
PredictSimple(attr, days) == attr.slope * days + attr.intercept

\* the fitted Ridge model as this model sees it: in standardized space its
\* in-sample prediction misses the target by err with alternating sign, and
\* its forecast for step i is level + drift * i
LibModels ==
    {[level |-> 0, drift |-> 0, err |-> 0],
     [level |-> UNIT, drift |-> UNIT \div 2, err |-> UNIT \div 2],
     [level |-> 0 - UNIT, drift |-> 0 - UNIT, err |-> UNIT \div 4],
     [level |-> 3 * UNIT, drift |-> 0 - UNIT, err |-> (3 * UNIT) \div 2]}

\* cross_val_score over TimeSeriesSplit: mean and std of the fold scores
LibCV ==
    {[cv_r2 |-> (4 * UNIT) \div 5, cv_std |-> UNIT \div 10],
     [cv_r2 |-> 0, cv_std |-> 0],
     [cv_r2 |-> 0 - UNIT \div 2, cv_std |-> UNIT]}

\* exceptions the regression library can raise
LibFaults == {"ValueError", "LinAlgError"}

MaxSplits == 5

RowsPerSplit == 10

n_splits(m) == Min2(MaxSplits, m \div RowsPerSplit)

\* model.predict(X_scaled) brought back by scaler_y.inverse_transform
PredictTrain(model, own_scaler_y, scaler, y) ==
    [i \in 1..Len(y) |->
        InverseTransform(scaler,
            Transform(own_scaler_y, y[i]) + (IF i % 2 = 0 THEN model.err ELSE 0 - model.err))]

SumSq(r) == SumSeq([i \in 1..Len(r) |-> MulFP(r[i], r[i])])

\* r2_score(y, y_pred)
R2Score(y, y_pred) ==
    LET ss_res == SumSq([i \in 1..Len(y) |-> y[i] - y_pred[i]])
        ss_tot == SumSq([i \in 1..Len(y) |-> y[i] - Mean(y)])
    IN  IF ss_tot # 0 THEN UNIT - DivFP(ss_res, ss_tot)
        ELSE IF ss_res = 0 THEN UNIT ELSE 0

\* the fallback's own R2: 0 for a constant target
R2Simple(y, y_pred) ==
    LET ss_res == SumSq([i \in 1..Len(y) |-> y[i] - y_pred[i]])
        ss_tot == SumSq([i \in 1..Len(y) |-> y[i] - Mean(y)])
    IN  IF ss_tot # 0 THEN UNIT - DivFP(ss_res, ss_tot) ELSE 0

\* steps 9 and 10: training metrics and the residual spread
TrainMetrics(lib, y, y_pred) ==
    LET residuals == [i \in 1..Len(y) |-> y[i] - y_pred[i]]
    IN  [train_r2 |-> IF lib THEN R2Score(y, y_pred) ELSE R2Simple(y, y_pred),
         train_rmse |-> SqrtFP(SumSq(residuals) \div Len(y)),
         train_mae |-> Mean([i \in 1..Len(y) |-> Abs(residuals[i])]),
         residual_std |-> StdPop(residuals)]

MinPrice == 1

Z95 == 196

StepUncertainty == 15

\* margin = residual_std * 1.96 * (1 + i * 0.15)
Margin(residual_std, i) ==
    MulFP(MulFP(residual_std, Z95 * CENT), UNIT + i * StepUncertainty * CENT)

\* (mutant) the forecast is not held at the 0.01 floor
ForecastPoint_NoFloor(y_raw, residual_std, last_date, i) ==
    [date |-> last_date + i,
     predicted_price |-> Round2(y_raw),
     lower_bound |-> Round2(Max2(MinPrice * CENT, y_raw - Margin(residual_std, i))),
     upper_bound |-> Round2(y_raw + Margin(residual_std, i))]

\* one forecast point from the model's raw prediction for step i
ForecastPoint(y_raw, residual_std, last_date, i) ==
    LET y_future == Max2(MinPrice * CENT, y_raw)
        margin   == Margin(residual_std, i)
    IN  [date |-> last_date + i,
         predicted_price |-> Round2(y_future),
         lower_bound |-> Round2(Max2(MinPrice * CENT, y_future - margin)),
         upper_bound |-> Round2(y_future + margin)]

TrendPct == 5

\* (mutant) the threshold is 3% instead of 5%
determine_trend_ThreePct(predictions, current_price) ==
    IF predictions = <<>> \/ current_price <= 0 THEN "neutral"
    ELSE LET change == predictions[Len(predictions)].predicted_price - current_price
         IN  IF 100 * change > 3 * current_price THEN "bullish"
             ELSE IF 100 * change < 0 - 3 * current_price THEN "bearish"
             ELSE "neutral"

\* (mutant) the thresholds are inclusive
determine_trend_Inclusive(predictions, current_price) ==
    IF predictions = <<>> \/ current_price <= 0 THEN "neutral"
    ELSE LET change == predictions[Len(predictions)].predicted_price - current_price
         IN  IF 100 * change >= TrendPct * current_price THEN "bullish"
             ELSE IF 100 * change <= 0 - TrendPct * current_price THEN "bearish"
             ELSE "neutral"

\* MLService._determine_trend
determine_trend(predictions, current_price) ==
    IF predictions = <<>> \/ current_price <= 0 THEN "neutral"
    ELSE LET last_predicted == predictions[Len(predictions)].predicted_price
             \* change_pct = change / current_price * 100, compared exactly
             change == last_predicted - current_price
         IN  IF 100 * change > TrendPct * current_price THEN "bullish"
             ELSE IF 100 * change < 0 - TrendPct * current_price THEN "bearish"
             ELSE "neutral"

MaxPenalty == 50

\* (mutant) the volatility penalty is not capped
Confidence_NoCap(cv_r2, train_r2, residual_std, current_price) ==
    LET base_confidence == IF cv_r2.some THEN Max2(0, 100 * cv_r2.v)
                           ELSE Max2(0, 100 * train_r2)
    IN  Max2(0, Min2(100 * UNIT,
                     base_confidence - 2 * 100 * DivFP(residual_std, current_price)))

\* step 13: the confidence of the model
Confidence(cv_r2, train_r2, residual_std, current_price) ==
    LET volatility_pct == 100 * DivFP(residual_std, current_price)
        base_confidence == IF cv_r2.some THEN Max2(0, 100 * cv_r2.v)
                           ELSE Max2(0, 100 * train_r2)
        volatility_penalty == Min2(MaxPenalty * UNIT, 2 * volatility_pct)
    IN  Max2(0, Min2(100 * UNIT, base_confidence - volatility_penalty))

\* round(v, 4) if v else None
RoundOrNone(opt) == IF opt.some /\ opt.v # 0 THEN opt ELSE None

\* steps 12 and 13 and the result returned on success
SuccessResult(lib, l) ==
    LET current_price == l.y[Len(l.y)]
    IN  [kind |-> "ok",
         current_price |-> Round2(current_price),
         predictions |-> l.predictions,
         trend |-> determine_trend(l.predictions, current_price),
         confidence |-> Round2(Confidence(l.cv_r2, l.metrics.train_r2,
                                          l.metrics.residual_std, current_price)),
         prediction_days |-> l.days_ahead,
         metrics |-> [train_r2 |-> l.metrics.train_r2,
                      cv_r2 |-> RoundOrNone(l.cv_r2),
                      cv_std |-> RoundOrNone(l.cv_std),
                      rmse |-> Round2(l.metrics.train_rmse),
                      mae |-> Round2(l.metrics.train_mae)],
         historical_volatility |-> Round2(100 * DivFP(l.metrics.residual_std, current_price)),
         features_used |-> l.feature_cols,
         data_points |-> Len(l.y),
         warnings |-> l.warnings,
         model |-> IF lib THEN "Ridge Regression" ELSE "Simple Linear Regression"]

\* (mutant) only ValueError is caught
Handler_ValueErrorOnly(exc, msg, warnings) ==
    IF exc = "ValueError" THEN [escaped |-> FALSE, ret |-> ErrorResult(msg, warnings)]
    ELSE [escaped |-> TRUE, ret |-> [kind |-> "none"]]

\* the two except clauses: a ValueError gives its own message, anything
\* else a generic one; nothing is re-raised
Handler(exc, msg, warnings) ==
    IF exc = "ValueError" THEN [escaped |-> FALSE, ret |-> ErrorResult(msg, warnings)]
    ELSE [escaped |-> FALSE, ret |-> ErrorResult("unexpected_error", warnings)]

(***************************************************************************)
(* MLService.get_trend_analysis and the two risk metrics                   *)
(***************************************************************************)
\* p.get("close") and p["close"] > 0: the closes that are neither missing
\* nor zero nor negative, in order
ValidCloses(rows) ==
    LET keep == [i \in 1..Len(rows) |-> ~rows[i].cnull /\ rows[i].close > 0]
    IN  [i \in 1..Len(SelectIdx(rows, keep, 1)) |-> SelectIdx(rows, keep, 1)[i].close]

\* Series.pct_change().dropna() of positive prices
PctChange(prices) ==
    [i \in 1..(Len(prices) - 1) |-> DivFP(prices[i + 1] - prices[i], prices[i])]

\* the loop of _calculate_max_drawdown from price i on
RECURSIVE DrawdownFrom(_, _, _, _)
DrawdownFrom(prices, i, peak, max_dd) ==
    IF i > Len(prices) THEN max_dd
    ELSE LET new_peak == IF prices[i] > peak THEN prices[i] ELSE peak
             drawdown == DivFP(100 * (new_peak - prices[i]), new_peak)
         IN  DrawdownFrom(prices, i + 1, new_peak,
                          IF new_peak > 0 THEN Max2(max_dd, drawdown) ELSE max_dd)

\* (mutant) every price is measured against the highest price of the series
calculate_max_drawdown_GlobalPeak(prices) ==
    IF Len(prices) < 2 THEN 0
    ELSE LET peak == CHOOSE x \in {prices[i] : i \in 1..Len(prices)} :
                        \A j \in 1..Len(prices) : prices[j] <= x
         IN  Round2(DrawdownFrom(prices, 1, peak, 0))

\* MLService._calculate_max_drawdown
calculate_max_drawdown(prices) ==
    IF Len(prices) < 2 THEN 0
    ELSE Round2(DrawdownFrom(prices, 1, prices[1], 0))

TradingDays == 252

\* risk_free_rate = 0.02
RiskFreePct == 2

\* (mutant) a zero deviation is not caught
calculate_sharpe_ratio_NoZeroGuard(returns) ==
    IF Len(returns) < 2 THEN 0
    ELSE Round2(DivFP(TradingDays * Mean(returns) - RiskFreePct * CENT,
                      Max2(1, MulFP(StdSample(returns), SqrtFP(TradingDays * UNIT)))))

\* MLService._calculate_sharpe_ratio
calculate_sharpe_ratio(returns) ==
    IF Len(returns) < 2 THEN 0
    ELSE LET std == StdSample(returns)
             annual_return == TradingDays * Mean(returns)
             annual_std == MulFP(std, SqrtFP(TradingDays * UNIT))
         IN  IF std = 0 THEN 0
             ELSE IF annual_std = 0 THEN 0
             ELSE Round2(DivFP(annual_return - RiskFreePct * CENT, annual_std))

\* calc_metrics of get_trend_analysis: no metrics under 2 prices or 2 returns
calc_metrics(prices) ==
    IF Len(prices) < 2 \/ Len(PctChange(prices)) < 2 THEN [has |-> FALSE]
    ELSE [has |-> TRUE,
          change_pct |-> Round2(DivFP(100 * (prices[Len(prices)] - prices[1]), prices[1])),
          volatility |-> Round2(100 * StdSample(PctChange(prices))),
          max_drawdown |-> calculate_max_drawdown(prices),
          sharpe_ratio |-> calculate_sharpe_ratio(PctChange(prices))]

ShortPct == 3

LongPct == 8

MinShortPoints == 5

MinLongPoints == 10

\* (mutant) the long-term thresholds are applied to the short window too
WindowTrend_LongOnly(metrics, pct) ==
    LET change_pct == IF metrics.has THEN metrics.change_pct ELSE 0
    IN  IF change_pct > LongPct * UNIT THEN "bullish"
        ELSE IF change_pct < 0 - LongPct * UNIT THEN "bearish"
        ELSE "neutral"

\* the trend of one window: metrics.get("change_pct", 0) against +pct, -pct
WindowTrend(metrics, pct) ==
    LET change_pct == IF metrics.has THEN metrics.change_pct ELSE 0
    IN  IF change_pct > pct * UNIT THEN "bullish"
        ELSE IF change_pct < 0 - pct * UNIT THEN "bearish"
        ELSE "neutral"

\* (mutant) the windows are not checked for their number of valid points
EnoughPoints_Unchecked(prices_1m, prices_3m) == TRUE

\* len(prices_1m) >= 5 and len(prices_3m) >= 10
EnoughPoints(prices_1m, prices_3m) ==
    Len(prices_1m) >= MinShortPoints /\ Len(prices_3m) >= MinLongPoints

AnalysisError(msg) == [kind |-> "error", error |-> msg]

\* the try block of get_trend_analysis on what the two fetches gave: what it
\* returns, or the exception that leaves it (a fetch that raises, prices[-1]
\* of an empty list)
AnalysisBody(history_1m, history_3m) ==
    IF history_1m.kind = "raises" \/ history_3m.kind = "raises"
    THEN [raised |-> "FetchError"]
    ELSE
    (IF history_1m.kind = "none" \/ history_3m.kind = "none"
    THEN AnalysisError("no_history")
    ELSE IF history_1m.kind = "empty" \/ history_3m.kind = "empty"
    THEN AnalysisError("no_prices")
    ELSE
    LET prices_1m == ValidCloses(history_1m.rows)
        prices_3m == ValidCloses(history_3m.rows)
    IN  IF ~EnoughPoints(prices_1m, prices_3m) THEN AnalysisError("insufficient_data")
        ELSE IF prices_1m = <<>> THEN [raised |-> "IndexError"]
        ELSE
        LET current_price == prices_1m[Len(prices_1m)]
            metrics_1m == calc_metrics(prices_1m)
            metrics_3m == calc_metrics(prices_3m)
        IN  [kind |-> "report",
             current_price |-> Round2(current_price),
             short_term |-> [period |-> "1M", trend |-> WindowTrend(metrics_1m, ShortPct),
                             metrics |-> metrics_1m],
             long_term |-> [period |-> "3M", trend |-> WindowTrend(metrics_3m, LongPct),
                            metrics |-> metrics_3m],
             technical |-> [sma20 |-> history_1m.sma20,
                            price_vs_sma20 |->
                                IF history_1m.sma20.some /\ history_1m.sma20.v # 0
                                THEN IF current_price > history_1m.sma20.v
                                     THEN "above" ELSE "below"
                                ELSE "none"]])
    @@ [raised |-> ""]

\* (mutant) the handler catches ValueError only
AnalysisHandler_ValueErrorOnly(exc) ==
    [escaped |-> exc # "ValueError", ret |-> AnalysisError("analysis_failed")]

\* except Exception: the error result, nothing re-raised
AnalysisHandler(exc) == [escaped |-> FALSE, ret |-> AnalysisError("analysis_failed")]

\* MLService.get_trend_analysis
get_trend_analysis(history_1m, history_3m) ==
    LET body == AnalysisBody(history_1m, history_3m)
    IN  IF body.raised # "" THEN AnalysisHandler(body.raised)
        ELSE [escaped |-> FALSE, ret |-> [f \in DOMAIN body \ {"raised"} |-> body[f]]]

(***************************************************************************)
(* MLService.calculate_correlation_matrix                                  *)
(*                                                                         *)
(* The request is the list of symbols; fetch maps a symbol to what         *)
(* price_service.get_history returns for it.  Closes are powers of two, so *)
(* that a log return is a whole number of ln 2; the correlation does not   *)
(* depend on that unit.  A correlation is [nan, v], v in steps of          *)
(* 1 / CorrUnit.                                                           *)
(***************************************************************************)
CorrUnit == 100

MinCorrPoints == 10

MinCorrReturns == 5

RECURSIVE Log2(_)
Log2(x) == IF x <= 1 THEN 0 ELSE 1 + Log2(x \div 2)

\* np.log(df / df.shift(1)).dropna(), one column
LogReturns(prices) == [i \in 1..(Len(prices) - 1) |-> Log2(prices[i + 1]) - Log2(prices[i])]

\* prices[-min_length:], and the same slice taken from the front
Align_FromStart(prices, min_length) == SubSeq1(prices, 1, min_length)

Align(prices, min_length) == SubSeq1(prices, Len(prices) - min_length + 1, Len(prices))

\* Pearson's r of two return columns, as DataFrame.corr() computes it: not a
\* number when either column has no variance; then round(r, digits)
Pearson(x, y) ==
    LET n == Len(x)
        sxy == n * SumSeq([i \in 1..n |-> x[i] * y[i]]) - SumSeq(x) * SumSeq(y)
        sxx == n * SumSeq([i \in 1..n |-> x[i] * x[i]]) - SumSeq(x) * SumSeq(x)
        syy == n * SumSeq([i \in 1..n |-> y[i] * y[i]]) - SumSeq(y) * SumSeq(y)
        prod == sxx * syy
        mag == CHOOSE c \in 0..CorrUnit :
                   /\ c > 0 => (2 * c - 1) * (2 * c - 1) * prod <= 4 * CorrUnit * CorrUnit * sxy * sxy
                   /\ 4 * CorrUnit * CorrUnit * sxy * sxy < (2 * c + 1) * (2 * c + 1) * prod
    IN  IF prod = 0 THEN NaN
        ELSE Val(IF sxy < 0 THEN 0 - mag ELSE mag)

\* price_data[symbol] = prices: a dict keeps one entry per key, at the place
\* where the key was first inserted
PutPrices(price_data, symbol, prices) ==
    IF \E i \in 1..Len(price_data) : price_data[i].symbol = symbol
    THEN [i \in 1..Len(price_data) |->
             IF price_data[i].symbol = symbol
             THEN [symbol |-> symbol, prices |-> prices] ELSE price_data[i]]
    ELSE Append(price_data, [symbol |-> symbol, prices |-> prices])

\* one pass of the loop over the requested symbols
CollectOne(acc, symbol, history) ==
    IF history.kind = "raises"
    THEN [acc EXCEPT !.errors = Append(@, [symbol |-> symbol, why |-> "fetch_error"])]
    ELSE IF history.kind = "none" \/ history.kind = "empty"
    THEN [acc EXCEPT !.errors = Append(@, [symbol |-> symbol, why |-> "not_found"])]
    ELSE LET prices == ValidCloses(history.rows)
         IN  IF Len(prices) >= MinCorrPoints
             THEN [acc EXCEPT !.price_data = PutPrices(@, symbol, prices)]
             ELSE [acc EXCEPT !.errors = Append(@, [symbol |-> symbol, why |-> "insufficient"])]

RECURSIVE Collect(_, _, _, _)
Collect(symbols, fetch, i, acc) ==
    IF i > Len(symbols) THEN acc
    ELSE Collect(symbols, fetch, i + 1, CollectOne(acc, symbols[i], fetch[symbols[i]]))

\* the pairs i < j whose correlation is a number, row by row
RECURSIVE PairsFrom(_, _, _, _)
PairsFrom(symbols_list, corr_matrix, k, acc) ==
    LET n == Len(symbols_list)
        i == (k \div n) + 1
        j == (k % n) + 1
    IN  IF k >= n * n THEN acc
        ELSE IF i < j /\ ~corr_matrix[i][j].nan
        THEN PairsFrom(symbols_list, corr_matrix, k + 1,
                       Append(acc, [symbol1 |-> symbols_list[i], symbol2 |-> symbols_list[j],
                                    correlation |-> corr_matrix[i][j].v]))
        ELSE PairsFrom(symbols_list, corr_matrix, k + 1, acc)

\* pairs.sort(key=abs(correlation), reverse=True): stable, so pairs of equal
\* key keep their order; and the same sort on the signed correlation
PairKey(p, absolute) == IF absolute THEN Abs(p.correlation) ELSE p.correlation

RECURSIVE InsertPair(_, _, _)
InsertPair(sorted, p, absolute) ==
    IF sorted = <<>> THEN <<p>>
    ELSE IF PairKey(Head(sorted), absolute) >= PairKey(p, absolute)
    THEN <<Head(sorted)>> \o InsertPair(Tail(sorted), p, absolute)
    ELSE <<p>> \o sorted

RECURSIVE SortPairsIn(_, _, _, _)
SortPairsIn(pairs, i, acc, absolute) ==
    IF i > Len(pairs) THEN acc
    ELSE SortPairsIn(pairs, i + 1, InsertPair(acc, pairs[i], absolute), absolute)

SortPairs_Signed(pairs) == SortPairsIn(pairs, 1, <<>>, FALSE)

SortPairs(pairs) == SortPairsIn(pairs, 1, <<>>, TRUE)

MinLength(price_data) ==
    CHOOSE m \in {Len(price_data[i].prices) : i \in 1..Len(price_data)} :
        \A i \in 1..Len(price_data) : m <= Len(price_data[i].prices)

calculate_correlation_matrix(symbols, fetch) ==
    LET collected == Collect(symbols, fetch, 1, [price_data |-> <<>>, errors |-> <<>>])
        price_data == collected.price_data
        errors == collected.errors
    IN  IF Len(price_data) < 2
        THEN [kind |-> "error", error |-> "insufficient_data", details |-> errors]
        ELSE
        LET min_length == MinLength(price_data)
            n == Len(price_data)
            returns == [i \in 1..n |-> LogReturns(Align(price_data[i].prices, min_length))]
            corr_matrix == [i \in 1..n |-> [j \in 1..n |-> Pearson(returns[i], returns[j])]]
            symbols_list == [i \in 1..n |-> price_data[i].symbol]
        IN  IF min_length - 1 < MinCorrReturns
            THEN [kind |-> "error", error |-> "insufficient_returns", details |-> <<>>]
            ELSE [kind |-> "report",
                  symbols |-> symbols_list,
                  matrix |-> [i \in 1..n |-> [j \in 1..n |->
                                 IF corr_matrix[i][j].nan THEN 0 ELSE corr_matrix[i][j].v]],
                  pairs |-> SortPairs(PairsFrom(symbols_list, corr_matrix, 0, <<>>)),
                  data_points |-> min_length - 1,
                  warnings |-> errors]

(***************************************************************************)
(* State                                                                   *)
(***************************************************************************)
VARIABLES
    clean,      \* a cleaning run: the frame, its first and second cleaning
    sklearn,    \* SKLEARN_AVAILABLE
    scaler_X,   \* ml_service.scaler_X: what it was last fitted on
    scaler_y,   \* ml_service.scaler_y: its mean_ and std_
    simple,     \* ml_service._simple_slope, _simple_intercept, _days_idx
    pc,         \* per request thread: where its predict_prices call stands
    inp,        \* per request thread: the arguments and the history fetched
    loc,        \* per request thread: the local variables of the call
    result,     \* per request thread: what the call returned
    calls,      \* predict_prices calls started so far
    trend_call, \* a call of _determine_trend: its arguments and what it returned
    risk_call,  \* a call of get_trend_analysis or of one of its metrics
    corr_call,  \* a call of calculate_correlation_matrix
    select_call, \* a call of _select_features
    feat_call,  \* a call of _create_features
    alerts,     \* the alerts table: its rows in id order
    run         \* per POST /alerts/check request: where check_all_alerts stands

vars == <<clean, trend_call, risk_call, corr_call, select_call, feat_call, sklearn, scaler_X, scaler_y, simple, pc, inp, loc, result, calls, alerts, run>>

alertvars == <<alerts, run>>

\* the calls of the functions that touch no attribute of the instance
purecalls == <<risk_call, corr_call, select_call, feat_call>>

mlvars == <<sklearn, scaler_X, scaler_y, simple, pc, inp, loc, result, calls>>

(***************************************************************************)
(* Cleaning runs: _preprocess_data applied to a frame, then to its own     *)
(* output                                                                  *)
(***************************************************************************)
CleanLens == {9, 10, 11, 12, 16}

CleanBases == {"flat", "linear", "zigzag", "decline"}

CleanMods == {"none", "spike", "null", "zero", "nullzero", "leadnull", "baddate",
              "dupdate", "swap", "nodate", "noclose"}

CleanPos == {2, 5, 9}

\* (a tenfold spike on the linear base would leave 32 bits)
\* frames whose first 6 or 7 dates do not parse
LossLens == {16, 17, 20, 23, 24}

LossFrames == {MkFrame(b, n, m, 5) : b \in CleanBases, n \in LossLens, m \in {"bad6", "bad7"}}

CleanFrames ==
    ({MkFrame(b, n, m, p) : b \in CleanBases, n \in CleanLens, m \in CleanMods, p \in CleanPos}
     \ {MkFrame("linear", n, "spike", p) : n \in CleanLens, p \in CleanPos})
    \cup LossFrames

NoClean == [stage |-> "none"]

CleanInit ==
    \E f \in CleanFrames : clean = [stage |-> "raw", frame |-> f]

CleanOnce ==
    /\ clean.stage = "raw"
    /\ \E tie \in Ties :
          clean' = [stage |-> "once", frame |-> clean.frame,
                    first |-> preprocess_data(clean.frame, tie)]
    /\ UNCHANGED <<alertvars, trend_call, purecalls, mlvars>>

CleanAgain ==
    /\ clean.stage = "once"
    /\ clean.first.err = ""
    /\ \E tie \in Ties :
          clean' = [stage |-> "twice", frame |-> clean.frame, first |-> clean.first,
                    second |-> preprocess_data(AsFrame(clean.first.df), tie)]
    /\ UNCHANGED <<alertvars, trend_call, purecalls, mlvars>>

CleanNext == CleanOnce \/ CleanAgain

(***************************************************************************)
(* predict_prices calls on the shared ml_service instance, one per request *)
(* thread (the route is a plain def, so the server runs each request on a  *)
(* worker thread)                                                          *)
(***************************************************************************)
NThreads == 2

Threads == 1..NThreads

MaxDays == 5

NoCall == [kind |-> "none"]

NoTrend == [stage |-> "none"]

NoPureCalls ==
    /\ risk_call = [stage |-> "none"]
    /\ corr_call = [stage |-> "none"]
    /\ select_call = [stage |-> "none"]
    /\ feat_call = [stage |-> "none"]

MLInit ==
    /\ sklearn \in BOOLEAN
    /\ scaler_X = [n_features |-> 0, mean_ |-> 0, std_ |-> UNIT]
    /\ scaler_y = [mean_ |-> 0, std_ |-> UNIT]
    /\ simple = [slope |-> 0, intercept |-> 0, days_idx |-> 0]
    /\ pc = [t \in Threads |-> "idle"]
    /\ inp = [t \in Threads |-> NoCall]
    /\ loc = [t \in Threads |-> NoCall]
    /\ result = [t \in Threads |-> NoCall]
    /\ calls = 0

\* an exception reaches the try block's handlers
Raise(t, exc, msg, warnings) ==
    LET h == Handler(exc, msg, warnings)
    IN  /\ result' = [result EXCEPT ![t] = h.ret]
        /\ pc' = [pc EXCEPT ![t] = IF h.escaped THEN "raised" ELSE "done"]

\* the call starts and runs steps 1 to 5; p is what prepare gave
Call(t, hist, days_ahead, p) ==
    /\ pc[t] = "idle"
    /\ calls' = calls + 1
    /\ inp' = [inp EXCEPT ![t] = [hist |-> hist, days_ahead |-> days_ahead]]
    /\ IF p.raised # ""
       THEN /\ Raise(t, p.raised, p.msg, p.warnings)
            /\ UNCHANGED loc
       ELSE IF p.ret.kind # "none"
       THEN /\ result' = [result EXCEPT ![t] = p.ret]
            /\ pc' = [pc EXCEPT ![t] = "done"]
            /\ UNCHANGED loc
       ELSE /\ loc' = [loc EXCEPT ![t] =
                         [kind |-> "call", days_ahead |-> days_ahead,
                          warnings |-> p.warnings, feature_cols |-> p.feature_cols,
                          x_days |-> p.x_days, y |-> p.y, last_row |-> p.last_row,
                          last_date |-> p.last_date,
                          max_date |-> p.max_date, lib_fault |-> FALSE]]
            /\ pc' = [pc EXCEPT ![t] = "scale_X"]
            /\ UNCHANGED result
    /\ UNCHANGED <<alertvars, clean, trend_call, purecalls, sklearn, scaler_X, scaler_y, simple>>

\* the orders the sort can leave a history's rows in: one when no two rows
\* share a date
TiesOf(hist) ==
    IF hist.kind = "prices"
       /\ \E i, j \in 1..Len(hist.frame.rows) :
             i < j /\ hist.frame.rows[i].date = hist.frame.rows[j].date
    THEN Ties ELSE {"keep"}

\* the histories hs, each in every order its equal dates can come out in,
\* with what steps 1 to 5 of predict_prices make of it
Prepared(hs) ==
    UNION {{[hist |-> hist, p |-> prepare(hist, tie)] : tie \in TiesOf(hist)} : hist \in hs}

\* a call of thread t on one of the prepared histories
CallFrom(t, prepared, max_days) ==
    \E c \in prepared : \E d \in 1..max_days : Call(t, c.hist, d, c.p)

\* X_scaled = self.scaler_X.fit_transform(X)
ScaleX(t) ==
    /\ pc[t] = "scale_X"
    /\ scaler_X' = FitScalerX(loc[t].feature_cols, loc[t].x_days)
    /\ pc' = [pc EXCEPT ![t] = "scale_y"]
    /\ UNCHANGED <<alertvars, clean, trend_call, purecalls, sklearn, scaler_y, simple, inp, loc, result, calls>>

\* y_scaled = self.scaler_y.fit_transform(y)
ScaleY(t) ==
    /\ pc[t] = "scale_y"
    /\ scaler_y' = FitScaler(loc[t].y)
    /\ pc' = [pc EXCEPT ![t] = "fit"]
    /\ UNCHANGED <<alertvars, clean, trend_call, purecalls, sklearn, scaler_X, simple, inp, loc, result, calls>>

\* steps 7 and 8 with the library: Ridge(alpha=1.0).fit and the temporal
\* cross-validation, skipped below 2 folds
FitRidge(t) ==
    /\ pc[t] = "fit"
    /\ sklearn
    /\ \E model \in LibModels :
       \E cv \in IF n_splits(Len(loc[t].y)) >= 2 THEN {[some |-> TRUE] @@ c : c \in LibCV}
                  ELSE {[some |-> FALSE, cv_r2 |-> 0, cv_std |-> 0]} :
          loc' = [loc EXCEPT ![t] =
                    [model |-> model,
                     cv_r2 |-> IF cv.some THEN Some(cv.cv_r2) ELSE None,
                     cv_std |-> IF cv.some THEN Some(cv.cv_std) ELSE None] @@ @]
    /\ pc' = [pc EXCEPT ![t] = "metrics"]
    /\ UNCHANGED <<alertvars, clean, trend_call, purecalls, sklearn, scaler_X, scaler_y, simple, inp, result, calls>>

\* the library raises while fitting or validating
FitRaises(t) ==
    /\ pc[t] = "fit"
    /\ sklearn
    /\ \E exc \in LibFaults : Raise(t, exc, "library_error", loc[t].warnings)
    /\ loc' = [loc EXCEPT ![t].lib_fault = TRUE]
    /\ UNCHANGED <<alertvars, clean, trend_call, purecalls, sklearn, scaler_X, scaler_y, simple, inp, calls>>

\* a fallback fit that keeps the coefficients of the instance's first fit
FitFallback_Cached(t) ==
    /\ pc[t] = "fit"
    /\ ~sklearn
    /\ simple' = IF calls > 1 THEN simple
                 ELSE FitSimple(loc[t].feature_cols, loc[t].x_days, loc[t].y)
    /\ loc' = [loc EXCEPT ![t] = [cv_r2 |-> None, cv_std |-> None] @@ @]
    /\ pc' = [pc EXCEPT ![t] = "metrics"]
    /\ UNCHANGED <<alertvars, clean, trend_call, purecalls, sklearn, scaler_X, scaler_y, inp, result, calls>>

\* the fallback fit: the coefficients go to attributes of the instance
FitFallback(t) ==
    /\ pc[t] = "fit"
    /\ ~sklearn
    /\ simple' = FitSimple(loc[t].feature_cols, loc[t].x_days, loc[t].y)
    /\ loc' = [loc EXCEPT ![t] = [cv_r2 |-> None, cv_std |-> None] @@ @]
    /\ pc' = [pc EXCEPT ![t] = "metrics"]
    /\ UNCHANGED <<alertvars, clean, trend_call, purecalls, sklearn, scaler_X, scaler_y, inp, result, calls>>

\* the in-sample predictions of the call, from the attributes it reads
TrainPredictions(lib, l, sy, attr) ==
    IF lib THEN PredictTrain(l.model, FitScaler(l.y), sy, l.y)
    ELSE [i \in 1..Len(l.y) |-> PredictSimple(attr, l.x_days[i])]

\* steps 9 and 10: in-sample predictions, metrics, residual spread
Metrics(t) ==
    /\ pc[t] = "metrics"
    /\ loc' = [loc EXCEPT ![t] =
                 [metrics |-> TrainMetrics(sklearn, loc[t].y,
                                           TrainPredictions(sklearn, loc[t], scaler_y, simple)),
                  predictions |-> <<>>, x_future |-> <<>>] @@ @]
    /\ pc' = [pc EXCEPT ![t] = "forecast"]
    /\ UNCHANGED <<alertvars, clean, trend_call, purecalls, sklearn, scaler_X, scaler_y, simple, inp, result, calls>>

LagColumns == {"lag_1", "lag_3", "lag_5", "lag_7"}

\* the lag features of step i, were they always the last known close
FutureLag_LastClose(l, i) == l.y[Len(l.y)]

\* the lag features of step i: the last known close at step 1, the previous
\* step's predicted_price after that
FutureLag(l, i) ==
    IF i = 1 \/ l.predictions = <<>> THEN l.y[Len(l.y)]
    ELSE l.predictions[Len(l.predictions)].predicted_price

\* X_future of step i, one value per selected feature
FutureFeatures(l, i) ==
    [k \in 1..Len(l.feature_cols) |->
        LET col == l.feature_cols[k]
        IN  IF col = "days" THEN l.x_days[Len(l.x_days)] + i
            ELSE IF col \in LagColumns THEN FutureLag(l, i)
            ELSE IF col = "day_of_week" THEN Weekday(l.max_date + i)
            ELSE l.last_row[k]]

\* the raw prediction for step i, from the attributes the call reads
RawForecast(lib, l, sy, attr, i) ==
    IF lib THEN InverseTransform(sy, l.model.level + l.model.drift * i)
    ELSE PredictSimple(attr, l.x_days[Len(l.x_days)] + i)

\* one turn of the forecast loop
ForecastStep(t) ==
    /\ pc[t] = "forecast"
    /\ sklearn => scaler_X.n_features = Len(loc[t].feature_cols)
    /\ LET i == Len(loc[t].predictions) + 1
           point == ForecastPoint(RawForecast(sklearn, loc[t], scaler_y, simple, i),
                                  loc[t].metrics.residual_std, loc[t].max_date, i)
       IN  /\ loc' = [loc EXCEPT ![t].predictions = Append(@, point),
                                 ![t].x_future = Append(@, FutureFeatures(loc[t], i))]
           /\ pc' = [pc EXCEPT ![t] = IF i = loc[t].days_ahead THEN "finish" ELSE "forecast"]
    /\ UNCHANGED <<alertvars, clean, trend_call, purecalls, sklearn, scaler_X, scaler_y, simple, inp, result, calls>>

\* scaler_X.transform(X_future) refuses a row whose width is not the width
\* the scaler was fitted on
ForecastMismatch(t) ==
    /\ pc[t] = "forecast"
    /\ sklearn
    /\ scaler_X.n_features # Len(loc[t].feature_cols)
    /\ Raise(t, "ValueError", "feature_mismatch", loc[t].warnings)
    /\ UNCHANGED <<alertvars, clean, trend_call, purecalls, sklearn, scaler_X, scaler_y, simple, inp, loc, calls>>

\* the library raises while predicting
ForecastRaises(t) ==
    /\ pc[t] = "forecast"
    /\ sklearn
    /\ \E exc \in LibFaults : Raise(t, exc, "library_error", loc[t].warnings)
    /\ loc' = [loc EXCEPT ![t].lib_fault = TRUE]
    /\ UNCHANGED <<alertvars, clean, trend_call, purecalls, sklearn, scaler_X, scaler_y, simple, inp, calls>>

\* steps 12 and 13 and the return
Finish(t) ==
    /\ pc[t] = "finish"
    /\ result' = [result EXCEPT ![t] = SuccessResult(sklearn, loc[t])]
    /\ pc' = [pc EXCEPT ![t] = "done"]
    /\ UNCHANGED <<alertvars, clean, trend_call, purecalls, sklearn, scaler_X, scaler_y, simple, inp, loc, calls>>

Steps(t) ==
    \/ ScaleX(t)
    \/ ScaleY(t)
    \/ FitRidge(t)
    \/ FitRaises(t)
    \/ FitFallback(t)
    \/ Metrics(t)
    \/ ForecastStep(t)
    \/ ForecastRaises(t)
    \/ Finish(t)

(***************************************************************************)
(* Alerts: the alerts table (models.Alert), routes/alerts.py and           *)
(* AlertService                                                            *)
(***************************************************************************)
AlertIds == {1, 2}

Runs == {1, 2}

AlertPrices == {5, 20}

AlertStatus == {"active", "triggered", "disabled"}

\* None in a Float column
NoPrice == 0 - 1

\* what price_service.get_price gives: a price, nothing, or an exception
PriceData ==
    {[kind |-> "price", current_price |-> p] : p \in AlertPrices}
      \cup {[kind |-> "nothing"], [kind |-> "raises"]}

AlertCreate(symbol, asset_type, alert_type, target_value) ==
    [symbol |-> symbol, asset_type |-> asset_type, alert_type |-> alert_type,
     target_value |-> target_value]

Quote(p) == [kind |-> "price", current_price |-> p]

\* the POST /alerts/ requests: the body, and what the price lookup of
\* create_alert gives (when the lookup raises no alert is created)
AlertRequests ==
    {[alert_data |-> AlertCreate("AAPL", "stock", "price_above", 10), price_data |-> Quote(5)],
     [alert_data |-> AlertCreate("AAPL", "stock", "price_below", 10), price_data |-> Quote(5)],
     [alert_data |-> AlertCreate("AAPL", "stock", "percent_change", 10), price_data |-> Quote(5)],
     [alert_data |-> AlertCreate("AAPL", "stock", "percent_change", 10),
      price_data |-> [kind |-> "nothing"]],
     [alert_data |-> AlertCreate("BTC", "crypto", "percent_change", 0), price_data |-> Quote(5)],
     [alert_data |-> AlertCreate("BTC", "crypto", "price_above", 10), price_data |-> Quote(5)]}

\* the fields a PUT sets (AlertUpdate with exclude_unset): here the status
AlertUpdates == {("status" :> st) : st \in AlertStatus}

NewAlert(alert_data, price_data) ==
    [symbol |-> alert_data.symbol,
     asset_type |-> alert_data.asset_type,
     alert_type |-> alert_data.alert_type,
     target_value |-> alert_data.target_value,
     current_price_at_creation |->
        IF price_data.kind = "price" THEN price_data.current_price ELSE NoPrice,
     status |-> "active",
     triggered_at |-> "None",
     triggered_price |-> NoPrice]

\* setattr(alert, key, value) for every key of update_data
SetAttrs(alert, update_data) ==
    [f \in DOMAIN alert |-> IF f \in DOMAIN update_data THEN update_data[f] ELSE alert[f]]

Disabled(alert) == [alert EXCEPT !.status = "disabled"]

Enabled(alert) ==
    [alert EXCEPT !.status = "active", !.triggered_at = "None", !.triggered_price = NoPrice]

Triggered(alert, current_price) ==
    [alert EXCEPT !.status = "triggered", !.triggered_at = "utcnow",
                  !.triggered_price = current_price]

check_alert_condition(alert, current_price) ==
    CASE alert.alert_type = "price_above" -> current_price >= alert.target_value
      [] alert.alert_type = "price_below" -> current_price <= alert.target_value
      [] alert.alert_type = "percent_change" ->
            /\ alert.current_price_at_creation # NoPrice
            /\ alert.current_price_at_creation # 0
            /\ 100 * Abs(current_price - alert.current_price_at_creation)
                   >= Abs(alert.target_value) * Abs(alert.current_price_at_creation)
      [] OTHER -> FALSE

\* send_alert builds its message before it sends anything: for a
\* percent_change alert it divides by target_value
SendAlertRaises(alert) ==
    /\ alert.alert_type \notin {"price_above", "price_below"}
    /\ alert.target_value = 0

KeyOf(alert) == <<alert.symbol, alert.asset_type>>

\* db.query(Alert).filter(Alert.status == "active").all(): ids in table order
ActiveAlerts(table) ==
    SelectSeq([i \in 1..Len(table) |-> i], LAMBDA i : table[i].status = "active")

AddToGroup(groups, key, id) ==
    IF \E g \in 1..Len(groups) : groups[g].key = key
    THEN [g \in 1..Len(groups) |->
            IF groups[g].key = key
            THEN [groups[g] EXCEPT !.alerts = Append(@, id)]
            ELSE groups[g]]
    ELSE Append(groups, [key |-> key, alerts |-> <<id>>])

RECURSIVE GroupFrom(_, _, _)
GroupFrom(active_alerts, table, groups) ==
    IF active_alerts = <<>> THEN groups
    ELSE GroupFrom(Tail(active_alerts), table,
                   AddToGroup(groups, KeyOf(table[Head(active_alerts)]), Head(active_alerts)))

\* alerts_by_symbol: a dict, so its groups come in order of first appearance
alerts_by_symbol(active_alerts, table) == GroupFrom(active_alerts, table, <<>>)

GroupErrors_One(group) == 1

\* results["errors"] += len(alerts)
GroupErrors(group) == Len(group)

IdleRun ==
    [pc |-> "idle", active |-> <<>>, groups |-> <<>>, at |-> 0,
     current_price |-> NoPrice,
     results |-> [checked |-> 0, triggered |-> 0, errors |-> 0],
     lookups |-> <<>>, log |-> <<>>]

NoAlerts == alerts = <<>> /\ run = [r \in Runs |-> IdleRun]

\* the event loop runs one coroutine at a time: a run moves only while every
\* other run is waiting for a notification to be delivered, or is not running
BetweenAwaits(r) ==
    \A o \in Runs \ {r} : run[o].pc \in {"idle", "sending", "returned"}

NoRunUnderWay == \A r \in Runs : run[r].pc = "idle"

rest == <<clean, trend_call, purecalls, mlvars>>

\* POST /alerts/: the alert is stored with the price found at that moment
create_alert ==
    /\ NoRunUnderWay
    /\ Len(alerts) < Cardinality(AlertIds)
    /\ \E req \in AlertRequests :
          alerts' = Append(alerts, NewAlert(req.alert_data, req.price_data))
    /\ UNCHANGED <<run, rest>>

\* PUT /alerts/{id}; an unknown id is answered 404 and changes nothing
update_alert(alert_id, update_data) ==
    /\ NoRunUnderWay
    /\ alert_id \in DOMAIN alerts
    /\ alerts' = [alerts EXCEPT ![alert_id] = SetAttrs(@, update_data)]
    /\ UNCHANGED <<run, rest>>

\* POST /alerts/{id}/disable
disable_alert(alert_id) ==
    /\ NoRunUnderWay
    /\ alert_id \in DOMAIN alerts
    /\ alerts' = [alerts EXCEPT ![alert_id] = Disabled(@)]
    /\ UNCHANGED <<run, rest>>

\* POST /alerts/{id}/enable
enable_alert(alert_id) ==
    /\ NoRunUnderWay
    /\ alert_id \in DOMAIN alerts
    /\ alerts' = [alerts EXCEPT ![alert_id] = Enabled(@)]
    /\ UNCHANGED <<run, rest>>

\* check_all_alerts up to its loop: the query and the grouping
Query(r) ==
    /\ run[r].pc = "idle"
    /\ BetweenAwaits(r)
    /\ run' = [run EXCEPT ![r] =
                 [IdleRun EXCEPT !.pc = "groups",
                                 !.active = ActiveAlerts(alerts),
                                 !.groups = alerts_by_symbol(ActiveAlerts(alerts), alerts)]]
    /\ UNCHANGED <<alerts, rest>>

\* the next alert of the group, or the next group
Advance(rr) ==
    IF rr.at < Len(Head(rr.groups).alerts)
    THEN [rr EXCEPT !.pc = "alerts", !.at = @ + 1]
    ELSE [rr EXCEPT !.pc = "groups", !.at = 0, !.groups = Tail(@)]

\* the head of the loop over the groups: price_service.get_price
GetPrice(r) ==
    /\ run[r].pc = "groups"
    /\ run[r].groups # <<>>
    /\ BetweenAwaits(r)
    /\ \E price_data \in PriceData :
          LET group == Head(run[r].groups)
              seen == [key |-> group.key, priced |-> price_data.kind = "price"]
          IN  run' = [run EXCEPT ![r] =
                IF price_data.kind = "price"
                THEN [@ EXCEPT !.pc = "alerts", !.at = 1,
                               !.current_price = price_data.current_price,
                               !.lookups = Append(@, seen)]
                ELSE [@ EXCEPT !.results.errors = @ + GroupErrors(group.alerts),
                               !.groups = Tail(@),
                               !.lookups = Append(@, seen)]]
    /\ UNCHANGED <<alerts, rest>>

CurrentAlert(rr) == Head(rr.groups).alerts[rr.at]

Event(rr, should_trigger, notified, delivered) ==
    [id |-> CurrentAlert(rr), status |-> alerts[CurrentAlert(rr)].status,
     should_trigger |-> should_trigger, notified |-> notified, delivered |-> delivered]

\* process_alert up to the await on the delivery: the alert is counted, its
\* condition is evaluated, and send_alert is entered when it holds
ProcessAlert(r) ==
    /\ run[r].pc = "alerts"
    /\ BetweenAwaits(r)
    /\ LET alert == alerts[CurrentAlert(run[r])]
           should_trigger == check_alert_condition(alert, run[r].current_price)
           counted == [run[r] EXCEPT !.results.checked = @ + 1]
       IN  run' = [run EXCEPT ![r] =
             IF should_trigger /\ ~SendAlertRaises(alert)
             THEN [counted EXCEPT !.pc = "sending"]
             ELSE Advance([counted EXCEPT
                            !.log = Append(@, Event(run[r], should_trigger, FALSE, FALSE))])]
    /\ UNCHANGED <<alerts, rest>>

\* the delivery is over, with or without success: the alert is updated and
\* committed, and the run goes on
Delivered(r) ==
    /\ run[r].pc = "sending"
    /\ BetweenAwaits(r)
    /\ \E delivered \in BOOLEAN :
          /\ alerts' = [alerts EXCEPT ![CurrentAlert(run[r])] =
                          Triggered(@, run[r].current_price)]
          /\ run' = [run EXCEPT ![r] =
                Advance([@ EXCEPT !.results.triggered = @ + 1,
                                  !.log = Append(@, Event(run[r], TRUE, TRUE, delivered))])]
    /\ UNCHANGED rest

\* return results
Return(r) ==
    /\ run[r].pc = "groups"
    /\ run[r].groups = <<>>
    /\ BetweenAwaits(r)
    /\ run' = [run EXCEPT ![r].pc = "returned"]
    /\ UNCHANGED <<alerts, rest>>

\* check_alerts answers the request with the results
Respond(r) ==
    /\ run[r].pc = "returned"
    /\ run' = [run EXCEPT ![r] = IdleRun]
    /\ UNCHANGED <<alerts, rest>>

UpdateAny == \E alert_id \in AlertIds : \E update_data \in AlertUpdates : update_alert(alert_id, update_data)

DisableAny == \E alert_id \in AlertIds : disable_alert(alert_id)

EnableAny == \E alert_id \in AlertIds : enable_alert(alert_id)

InitAlerts == clean = NoClean /\ trend_call = NoTrend /\ NoPureCalls /\ MLInit /\ sklearn /\ NoAlerts

(***************************************************************************)
(* SpecAlerts: the alert routes and one check_all_alerts run at a time     *)
(***************************************************************************)
NextAlerts ==
    \/ create_alert
    \/ UpdateAny
    \/ DisableAny
    \/ EnableAny
    \/ Query(1)
    \/ GetPrice(1)
    \/ ProcessAlert(1)
    \/ Delivered(1)
    \/ Return(1)
    \/ Respond(1)

SpecAlerts == InitAlerts /\ [][NextAlerts]_vars

(***************************************************************************)
(* SpecOverlap: alerts are created, then two check_all_alerts runs         *)
(* interleave at the await on the delivery                                 *)
(***************************************************************************)
NextOverlap ==
    \/ create_alert
    \/ \E r \in Runs : Query(r)
    \/ \E r \in Runs : GetPrice(r)
    \/ \E r \in Runs : ProcessAlert(r)
    \/ \E r \in Runs : Delivered(r)
    \/ \E r \in Runs : Return(r)

SpecOverlap == InitAlerts /\ [][NextOverlap]_vars

(***************************************************************************)
(* Spec: one predict_prices call at a time                                 *)
(***************************************************************************)
PredLens == {14, 15, 20, 21, 30, 39}

PredMods == {"none", "spike", "nullzero", "bad7", "dupdate", "swap", "noclose"}

PredFrames ==
    {MkFrame(b, n, m, 5) : b \in CleanBases, n \in PredLens, m \in PredMods}
    \ {MkFrame("linear", n, "spike", 5) : n \in PredLens}

Histories == {NoHistory, EmptyHistory, FailedFetch} \cup {History(f) : f \in PredFrames}

Init == clean = NoClean /\ trend_call = NoTrend /\ NoPureCalls /\ MLInit /\ NoAlerts

PreparedHistories == Prepared(Histories)

CallOne == CallFrom(1, PreparedHistories, MaxDays)

Next == CallOne \/ Steps(1)

Spec == Init /\ [][Next]_vars

(***************************************************************************)
(* SpecConc: the request threads of the server call predict_prices on the  *)
(* one ml_service instance, their steps interleaved                        *)
(***************************************************************************)
ConcDays == 2

ConcHistories ==
    {NoHistory,
     History(MkFrame("linear", 30, "none", 5)),
     History(MkFrame("zigzag", 30, "none", 5))}

PreparedConc == Prepared(ConcHistories)

CallAny == \E t \in Threads : CallFrom(t, PreparedConc, ConcDays)

StepAny == \E t \in Threads : Steps(t)

MismatchAny == \E t \in Threads : ForecastMismatch(t)

NextConc == CallAny \/ StepAny \/ MismatchAny

SpecConc == Init /\ [][NextConc]_vars

(***************************************************************************)
(* SpecSeq: the requests arrive one after another: a request thread calls  *)
(* predict_prices on the one ml_service instance only when no other call   *)
(* is under way                                                            *)
(***************************************************************************)
NoCallUnderWay(t) == \A u \in Threads \ {t} : pc[u] \in {"idle", "done", "raised"}

\* a call that starts when the calls before it have returned
CallAlone(t, hist, days_ahead, p) == NoCallUnderWay(t) /\ Call(t, hist, days_ahead, p)

CallNext ==
    \E t \in Threads : \E c \in PreparedConc : \E d \in 1..ConcDays :
        CallAlone(t, c.hist, d, c.p)

NextSeq == CallNext \/ StepAny

SpecSeq == Init /\ [][NextSeq]_vars

(***************************************************************************)
(* SpecSelect: _select_features on feature tables of TableRows rows, in    *)
(* which each of the columns VariedColumns is absent or has its values in  *)
(* its last rows only                                                      *)
(***************************************************************************)
TableRows == {4, 12}

VariedColumns == {"days", "lag_7", "rsi", "day_of_week"}

Absent == 0 - 1

\* a column is absent, or holds this many values, all in its last rows
ColumnStates == {Absent, 0, 4, 5, 12}

\* the table: log_return (not a candidate) is always there and complete
MkTable(n, st) ==
    LET cols == {f \in VariedColumns : st[f] # Absent} \cup {"log_return"}
    IN  [cols |-> cols,
         cell |-> [f \in cols |-> [i \in 1..n |->
                     IF f = "log_return" \/ i > n - st[f] THEN Val(UNIT) ELSE NaN]]]

InitSelect ==
    /\ clean = NoClean
    /\ NoAlerts
    /\ trend_call = NoTrend
    /\ risk_call = [stage |-> "none"]
    /\ corr_call = [stage |-> "none"]
    /\ feat_call = [stage |-> "none"]
    /\ MLInit
    /\ sklearn = FALSE
    /\ \E n \in TableRows : \E st \in [VariedColumns -> ColumnStates] :
          select_call = [stage |-> "args", df |-> MkTable(n, st), n |-> n]

SelectCall ==
    /\ select_call.stage = "args"
    /\ select_call' = [stage |-> "done", df |-> select_call.df, n |-> select_call.n,
                       out |-> select_features(select_call.df, select_call.n)]
    /\ UNCHANGED <<alertvars, clean, trend_call, risk_call, corr_call, feat_call, mlvars>>

SpecSelect == InitSelect /\ [][SelectCall]_vars

(***************************************************************************)
(* SpecFeat: _create_features on cleaned series of 1 to MaxFeatRows rows   *)
(***************************************************************************)
MaxFeatRows == 22

\* a cleaned series: one row a day, no gap
CleanSeries(base, n) ==
    [i \in 1..n |-> [date |-> i, close |-> BaseClose(base, n, i)]]

InitFeat ==
    /\ clean = NoClean
    /\ NoAlerts
    /\ trend_call = NoTrend
    /\ risk_call = [stage |-> "none"]
    /\ corr_call = [stage |-> "none"]
    /\ select_call = [stage |-> "none"]
    /\ MLInit
    /\ sklearn = FALSE
    /\ \E base \in CleanBases : \E n \in 1..MaxFeatRows :
          feat_call = [stage |-> "args", df |-> CleanSeries(base, n)]

FeatureCall ==
    /\ feat_call.stage = "args"
    /\ feat_call' = [stage |-> "done", df |-> feat_call.df,
                     out |-> create_features(feat_call.df)]
    /\ UNCHANGED <<alertvars, clean, trend_call, risk_call, corr_call, select_call, mlvars>>

SpecFeat == InitFeat /\ [][FeatureCall]_vars

(***************************************************************************)
(* SpecLen: two requests, one after the other, each for a gap-free daily   *)
(* history of distinct positive closes, of LenRows rows, one day ahead     *)
(***************************************************************************)
LenRows == {15, 20, 23, 24, 29, 40}

LenBases == {"linear", "decline"}

LenDays == 1

LenHistories == {History(MkFrame(b, n, "none", 5)) : b \in LenBases, n \in LenRows}

PreparedLen == Prepared(LenHistories)

CallLen ==
    \E t \in Threads : \E c \in PreparedLen : \E d \in 1..LenDays :
        CallAlone(t, c.hist, d, c.p)

NextLen == CallLen \/ StepAny

SpecLen == Init /\ [][NextLen]_vars

(***************************************************************************)
(* SpecClean: cleaning runs                                                *)
(***************************************************************************)
InitClean ==
    /\ CleanInit
    /\ NoAlerts
    /\ trend_call = NoTrend
    /\ NoPureCalls
    /\ MLInit
    /\ sklearn = FALSE

SpecClean == InitClean /\ [][CleanNext]_vars


(***************************************************************************)
(* SpecRisk: get_trend_analysis on two fetched windows, and the two risk   *)
(* metrics on lists of their own                                           *)
(***************************************************************************)
\* the first close of every window
WindowFirst == 100 * UNIT

\* last close minus first close: 0%, and values at and around 3% and 8%
WindowDeltas == {0 - 8010, 0 - 8000, 0 - 3010, 0 - 3000, 0, 3000, 3004, 3010,
                 8000, 8004, 8010}

WindowMods == {"null", "zero", "negative"}

\* a window of n closes from WindowFirst to WindowFirst + delta, flat in
\* between or with a dip to half, row 2 spoilt by mod
WindowRows(n, delta, dip, mod) ==
    [i \in 1..n |->
        [cnull |-> (mod = "null" /\ i = 2),
         close |-> IF mod = "zero" /\ i = 2 THEN 0
                   ELSE IF mod = "negative" /\ i = 2 THEN 0 - UNIT
                   ELSE IF i = n THEN WindowFirst + delta
                   ELSE IF dip /\ i = 3 THEN WindowFirst \div 2
                   ELSE WindowFirst]]

Window(rows, sma20) == [kind |-> "prices", rows |-> rows, sma20 |-> sma20]

Windows(lens) ==
    {NoHistory, EmptyHistory, FailedFetch}
    \cup {Window(WindowRows(n, d, dip, "none"), None) :
             n \in lens, d \in WindowDeltas, dip \in BOOLEAN}
    \cup {Window(WindowRows(n, 0, FALSE, mod), Some(WindowFirst)) :
             n \in lens, mod \in WindowMods}

ShortLens == {4, 5, 20}

LongLens == {9, 10, 20}

MaxMetricLen == 3

MetricPrices == {0 - 2 * UNIT, 0, UNIT, 2 * UNIT, 4 * UNIT}

MetricReturns == {0 - CENT, 0, CENT, 2 * CENT}

ListsOver(S, n) == UNION {[1..k -> S] : k \in 0..n}

InitRisk ==
    /\ clean = NoClean
    /\ NoAlerts
    /\ trend_call = NoTrend
    /\ corr_call = [stage |-> "none"]
    /\ select_call = [stage |-> "none"]
    /\ feat_call = [stage |-> "none"]
    /\ MLInit
    /\ sklearn = FALSE
    /\ \/ \E h1 \in Windows(ShortLens) : \E h3 \in Windows(LongLens) :
             risk_call = [stage |-> "args", fn |-> "analysis",
                          history_1m |-> h1, history_3m |-> h3]
       \/ \E ps \in ListsOver(MetricPrices, MaxMetricLen) :
             risk_call = [stage |-> "args", fn |-> "drawdown", prices |-> ps]
       \/ \E rs \in ListsOver(MetricReturns, MaxMetricLen) :
             risk_call = [stage |-> "args", fn |-> "sharpe", returns |-> rs]

AnalysisCall ==
    /\ risk_call.stage = "args" /\ risk_call.fn = "analysis"
    /\ risk_call' = [stage |-> "done", fn |-> "analysis",
                     history_1m |-> risk_call.history_1m,
                     history_3m |-> risk_call.history_3m,
                     escaped |-> get_trend_analysis(risk_call.history_1m,
                                                    risk_call.history_3m).escaped,
                     out |-> get_trend_analysis(risk_call.history_1m,
                                                risk_call.history_3m).ret]
    /\ UNCHANGED <<alertvars, clean, trend_call, corr_call, select_call, feat_call, mlvars>>

DrawdownCall ==
    /\ risk_call.stage = "args" /\ risk_call.fn = "drawdown"
    /\ risk_call' = [stage |-> "done", fn |-> "drawdown", prices |-> risk_call.prices,
                     out |-> calculate_max_drawdown(risk_call.prices)]
    /\ UNCHANGED <<alertvars, clean, trend_call, corr_call, select_call, feat_call, mlvars>>

SharpeCall ==
    /\ risk_call.stage = "args" /\ risk_call.fn = "sharpe"
    /\ risk_call' = [stage |-> "done", fn |-> "sharpe", returns |-> risk_call.returns,
                     out |-> calculate_sharpe_ratio(risk_call.returns)]
    /\ UNCHANGED <<alertvars, clean, trend_call, corr_call, select_call, feat_call, mlvars>>

NextRisk == AnalysisCall \/ DrawdownCall \/ SharpeCall

SpecRisk == InitRisk /\ [][NextRisk]_vars

(***************************************************************************)
(* SpecCorr: calculate_correlation_matrix on a request of up to            *)
(* MaxSymbols symbols, over every assignment of a fetch outcome to each    *)
(* symbol                                                                  *)
(***************************************************************************)
Symbols == {"AAA", "BBB", "CCC"}

MaxSymbols == 3

\* rows with the closes 2^e for the exponents e
PowerRows(exps) == [i \in 1..Len(exps) |-> [close |-> 2 ^ exps[i], cnull |-> FALSE]]

\* ten closes that rise two days and fall one
SawRows == PowerRows(<<5, 6, 7, 6, 7, 8, 7, 8, 9, 8>>)

\* the same ten closes with a zero close among them: eleven rows
SawRowsWithZero == SubSeq1(SawRows, 1, 4) \o <<[close |-> 0, cnull |-> FALSE]>>
                       \o SubSeq1(SawRows, 5, 10)

\* twelve closes: two early rises, then ten that fall when the saw rises
MirrorRows == PowerRows(<<7, 8, 9, 8, 7, 8, 7, 6, 7, 6, 5, 6>>)

\* ten closes that follow the saw on some days only
DriftRows == PowerRows(<<5, 6, 6, 5, 6, 6, 6, 7, 6, 6>>)

\* ten identical closes
FlatRows == PowerRows(<<5, 5, 5, 5, 5, 5, 5, 5, 5, 5>>)

\* nine closes: one too few
ShortRows == SubSeq1(SawRows, 1, 9)

Fetched(rows) == [kind |-> "prices", rows |-> rows]

FetchOutcomes ==
    {NoHistory, FailedFetch, Fetched(ShortRows), Fetched(FlatRows),
     Fetched(SawRowsWithZero), Fetched(MirrorRows), Fetched(DriftRows)}

InitCorr ==
    /\ clean = NoClean
    /\ NoAlerts
    /\ trend_call = NoTrend
    /\ risk_call = [stage |-> "none"]
    /\ select_call = [stage |-> "none"]
    /\ feat_call = [stage |-> "none"]
    /\ MLInit
    /\ sklearn = FALSE
    /\ \E symbols \in ListsOver(Symbols, MaxSymbols) : \E fetch \in [Symbols -> FetchOutcomes] :
          \* what a symbol that is not requested would fetch does not matter
          /\ \A s \in Symbols : (\A i \in 1..Len(symbols) : symbols[i] # s) => fetch[s] = NoHistory
          /\ corr_call = [stage |-> "args", symbols |-> symbols, fetch |-> fetch]

CorrelationCall ==
    /\ corr_call.stage = "args"
    /\ corr_call' = [stage |-> "done", symbols |-> corr_call.symbols,
                     fetch |-> corr_call.fetch,
                     out |-> calculate_correlation_matrix(corr_call.symbols, corr_call.fetch)]
    /\ UNCHANGED <<alertvars, clean, trend_call, risk_call, select_call, feat_call, mlvars>>

NextCorr == CorrelationCall

SpecCorr == InitCorr /\ [][NextCorr]_vars

(***************************************************************************)
(* Claims about _preprocess_data, checked under SpecClean                  *)
(***************************************************************************)
Cleaned == clean.stage \in {"once", "twice"} /\ clean.first.err = ""

DistinctDates(df) == \A i, j \in 1..Len(df) : i # j => df[i].date # df[j].date

\* C3: whenever _preprocess_data returns a series, every close in it is
\* positive and its dates are strictly increasing (no two rows share a date).
\* The code sorts by date but never removes a repeated date.
C3_CleanedPositiveStrictlyIncreasing ==
    Cleaned =>
        /\ \A i \in 1..Len(clean.first.df) : clean.first.df[i].close > 0
        /\ \A i \in 1..(Len(clean.first.df) - 1) :
              clean.first.df[i].date < clean.first.df[i + 1].date

\* C4 as claimed: cleaning the output of a cleaning returns the identical
\* series, also when the first pass clipped outliers (read on series whose
\* dates are distinct, where the order of the rows is not the sort's choice).
C4_Idempotent ==
    clean.stage = "twice" /\ DistinctDates(clean.first.df) =>
        clean.second.err = "" /\ clean.second.df = clean.first.df

\* a close of the series c that lies more than 3 sample standard deviations
\* from the mean of c
BeyondThreeSigma(c, x) ==
    Len(c) > 1 /\ StdSample(c) > 0 /\ Abs(x - Mean(c)) > 3 * StdSample(c)

\* C4 as amended: cleaning a cleaned series returns a series of the same
\* length and the same dates in the same order, whose closes are those of the
\* first output except where the first output itself still holds a close
\* beyond 3 standard deviations of its own mean (rows that share a date may
\* change places); when the first pass clipped nothing and no two rows share
\* a date, the result is identical.
C4_IdempotentUnlessStillOutlying ==
    clean.stage = "twice" =>
        /\ clean.second.err = ""
        /\ Len(clean.second.df) = Len(clean.first.df)
        /\ \A k \in 1..Len(clean.first.df) :
              /\ clean.second.df[k].date = clean.first.df[k].date
              /\ \E j \in 1..Len(clean.first.df) :
                    /\ clean.first.df[j].date = clean.second.df[k].date
                    /\ \/ clean.second.df[k].close = clean.first.df[j].close
                       \/ BeyondThreeSigma(Closes(clean.first.df), clean.first.df[j].close)
        /\ (/\ DistinctDates(clean.first.df)
            /\ \A k \in 1..Len(clean.first.warnings) :
                  clean.first.warnings[k] # "outliers_clipped")
              => clean.second.df = clean.first.df

\* a second cleaning that clipped again what the first had clipped
C4_Witness ==
    /\ clean.stage = "twice"
    /\ DistinctDates(clean.first.df)
    /\ \E k \in 1..Len(clean.first.warnings) : clean.first.warnings[k] = "outliers_clipped"
    /\ clean.second.df # clean.first.df

\* the frames C5 is about: every date parses, no close is null or zero
FullyValid(frame) ==
    /\ {"date", "close"} \subseteq frame.cols
    /\ \A i \in 1..Len(frame.rows) :
          frame.rows[i].dok /\ ~frame.rows[i].cnull /\ frame.rows[i].close # 0

\* what C5 says a close becomes: the nearer end of the band when it lies
\* beyond 3 standard deviations, itself otherwise
ClippedAsClaimed(c, x) ==
    IF BeyondThreeSigma(c, x)
    THEN IF x > Mean(c) THEN Mean(c) + 3 * StdSample(c) ELSE Mean(c) - 3 * StdSample(c)
    ELSE x

\* C5: for a frame of parseable dates and non-null non-zero closes that holds
\* a close more than 3 standard deviations from the mean, the cleaned series
\* has the length of the input, the outlier is replaced by the nearer end of
\* [mean - 3 std, mean + 3 std] computed before clipping, and every other
\* close is unchanged.
C5_ClipsNeverRemoves ==
    /\ clean.stage = "once"
    /\ FullyValid(clean.frame)
    /\ \E i \in 1..Len(clean.frame.rows) :
          BeyondThreeSigma(Closes(clean.frame.rows), clean.frame.rows[i].close)
    => /\ clean.first.err = ""
       /\ Len(clean.first.df) = Len(clean.frame.rows)
       /\ \E tie \in Ties :
             clean.first.df =
                SortByDate([i \in 1..Len(clean.frame.rows) |->
                               [date |-> clean.frame.rows[i].date,
                                close |-> ClippedAsClaimed(Closes(clean.frame.rows),
                                                           clean.frame.rows[i].close)]], tie)

\* a cleaning of a valid frame with a tenfold spike, which came back clipped
C5_Witness ==
    /\ clean.stage = "once"
    /\ FullyValid(clean.frame)
    /\ \E i \in 1..Len(clean.frame.rows) :
          /\ BeyondThreeSigma(Closes(clean.frame.rows), clean.frame.rows[i].close)
          /\ clean.frame.rows[i].close = 10 * BaseClose("zigzag", Len(clean.frame.rows), i)
    /\ clean.first.err = ""
    /\ \E k \in 1..Len(clean.first.df) :
          clean.first.df[k].close \notin {clean.frame.rows[i].close : i \in 1..Len(clean.frame.rows)}

(***************************************************************************)
(* SpecTrend: _determine_trend applied to lists of forecast points         *)
(***************************************************************************)
MaxTrendPoints == 2

TrendPrices == {CENT, 19, 21, 94 * UNIT, 95 * UNIT, 96 * UNIT, 100 * UNIT,
                104 * UNIT, 105 * UNIT, 106 * UNIT}

TrendCurrents == {0 - UNIT, 0, 20, 100 * UNIT}

TrendLists ==
    UNION {[1..n -> {[predicted_price |-> v] : v \in TrendPrices}] : n \in 0..MaxTrendPoints}

InitTrend ==
    /\ clean = NoClean
    /\ NoAlerts
    /\ NoPureCalls
    /\ MLInit
    /\ sklearn = FALSE
    /\ \E ps \in TrendLists : \E c \in TrendCurrents :
          trend_call = [stage |-> "args", predictions |-> ps, current_price |-> c]

TrendCall ==
    /\ trend_call.stage = "args"
    /\ trend_call' = [stage |-> "done",
                      predictions |-> trend_call.predictions,
                      current_price |-> trend_call.current_price,
                      out |-> determine_trend(trend_call.predictions,
                                              trend_call.current_price)]
    /\ UNCHANGED <<alertvars, clean, purecalls, mlvars>>

SpecTrend == InitTrend /\ [][TrendCall]_vars

(***************************************************************************)
(* Claims about predict_prices, checked under Spec                         *)
(***************************************************************************)
Returned(t) == pc[t] = "done"

Succeeded(t) == pc[t] = "done" /\ result[t].kind = "ok"

\* histories from which no forecast can be made, as the inputs show it: none
\* or empty, under 15 rows, a missing column, or under 10 parseable dates
Unusable(hist) ==
    \/ hist.kind # "prices"
    \/ Len(hist.frame.rows) < 15
    \/ ~({"date", "close"} \subseteq hist.frame.cols)
    \/ Count(hist.frame.rows, LAMBDA r : r.dok) < 10

\* Scenario D: 15 rows of which 8 have a parseable date
ScenarioD(hist) ==
    /\ hist.kind = "prices"
    /\ {"date", "close"} \subseteq hist.frame.cols
    /\ Len(hist.frame.rows) = 15
    /\ Count(hist.frame.rows, LAMBDA r : r.dok) = 8

\* C2: predict_prices lets no fault escape: the call never ends in an
\* exception; a call that fails (unusable history, fewer than 10 training
\* rows, a fault of the regression library) returns a result with a non-empty
\* error and no predictions; Scenario D returns the insufficient-data error.
C2_NoFaultEscapes ==
    \A t \in Threads :
        /\ pc[t] # "raised"
        /\ Returned(t) =>
              /\ result[t].kind \in {"ok", "error"}
              /\ result[t].kind = "error" =>
                    result[t].error # "" /\ "predictions" \notin DOMAIN result[t]
              /\ Unusable(inp[t].hist) => result[t].kind = "error"
              /\ loc[t].kind = "call" /\ loc[t].lib_fault => result[t].kind = "error"
              /\ result[t].kind = "ok" => result[t].data_points >= 10
              /\ ScenarioD(inp[t].hist) =>
                    result[t].kind = "error"
                    /\ result[t].error = "insufficient_after_cleaning"

\* a library fault other than ValueError came back as an error result
C2_Witness ==
    \E t \in Threads :
        /\ Returned(t)
        /\ loc[t].kind = "call" /\ loc[t].lib_fault
        /\ result[t].kind = "error" /\ result[t].error = "unexpected_error"

\* C6: a successful forecast has exactly days_ahead points, dated on the
\* consecutive days after the last training date, each with a predicted
\* price of at least 0.01, a lower bound of at least 0.01 and an upper bound
\* not below the lower bound.
C6_ForecastShape ==
    \A t \in Threads :
        Succeeded(t) =>
            /\ Len(result[t].predictions) = inp[t].days_ahead
            /\ \A i \in 1..Len(result[t].predictions) :
                  /\ result[t].predictions[i].date = loc[t].max_date + i
                  /\ result[t].predictions[i].predicted_price >= CENT
                  /\ result[t].predictions[i].lower_bound >= CENT
                  /\ result[t].predictions[i].upper_bound
                        >= result[t].predictions[i].lower_bound

\* a forecast of the longest horizon whose last point sits on the floor
C6_Witness ==
    \E t \in Threads :
        /\ Succeeded(t)
        /\ inp[t].days_ahead = MaxDays
        /\ Len(result[t].predictions) = MaxDays
        /\ result[t].predictions[MaxDays].predicted_price = CENT
        /\ result[t].predictions[MaxDays].lower_bound = CENT

\* C7: within one forecast the half-width (upper - lower) / 2 never shrinks
\* from one point to the next, also where the lower bound is held at 0.01.
\* The code widens the margin, not the interval that is left after the
\* lower bound is held at the floor.
C7_WidthNonDecreasing ==
    \A t \in Threads :
        Succeeded(t) =>
            \A i \in 1..(Len(result[t].predictions) - 1) :
                result[t].predictions[i].upper_bound - result[t].predictions[i].lower_bound
                  <= result[t].predictions[i + 1].upper_bound
                       - result[t].predictions[i + 1].lower_bound

\* C8: the confidence of a successful forecast lies in [0, 100] and is
\* clamp(0, 100, base - penalty) to two decimals, base being 100 times the
\* cross-validated r2 when validation ran and 100 times the training r2
\* otherwise, penalty being min(50, 2 * residual_std / current_price * 100).
C8_ConfidenceFormula ==
    \A t \in Threads :
        Succeeded(t) =>
            LET current == loc[t].y[Len(loc[t].y)]
                base    == IF loc[t].cv_r2.some THEN 100 * loc[t].cv_r2.v
                           ELSE 100 * loc[t].metrics.train_r2
                penalty == Min2(50 * UNIT,
                                2 * (100 * DivFP(loc[t].metrics.residual_std, current)))
            IN  /\ result[t].confidence >= 0
                /\ result[t].confidence <= 100 * UNIT
                /\ result[t].confidence =
                      Round2(IF base - penalty < 0 THEN 0
                             ELSE IF base - penalty > 100 * UNIT THEN 100 * UNIT
                             ELSE base - penalty)

\* a forecast whose penalty was capped at 50 and whose confidence is neither
\* 0 nor 100
C8_Witness ==
    \E t \in Threads :
        /\ Succeeded(t)
        /\ 2 * (100 * DivFP(loc[t].metrics.residual_std, loc[t].y[Len(loc[t].y)])) > 50 * UNIT
        /\ result[t].confidence > 0
        /\ result[t].confidence < 100 * UNIT

\* Scenario A: closes 100, 101, ..., 129 on 30 consecutive days, 5 days ahead
ScenarioA(t) ==
    /\ inp[t].hist = History(MkFrame("linear", 30, "none", 5))
    /\ inp[t].days_ahead = 5

Increasing(predictions) ==
    \A i \in 1..(Len(predictions) - 1) :
        predictions[i].predicted_price < predictions[i + 1].predicted_price

\* C10 as claimed: on Scenario A the fallback fit returns a success whose
\* predicted prices increase strictly, whose trend is "bullish" and whose
\* confidence is above 50.
C10_ScenarioABullish ==
    \A t \in Threads :
        Returned(t) /\ ~sklearn /\ ScenarioA(t) =>
            /\ result[t].kind = "ok"
            /\ Increasing(result[t].predictions)
            /\ result[t].trend = "bullish"
            /\ result[t].confidence > 50 * UNIT

\* C10 as amended: on Scenario A the fallback fit returns a success whose
\* predicted prices are 130, 131, 132, 133, 134, whose trend is "neutral"
\* (134 is 3.88% above 129, not more than 5%) and whose confidence is above
\* 50.
C10_ScenarioANeutral ==
    \A t \in Threads :
        Returned(t) /\ ~sklearn /\ ScenarioA(t) =>
            /\ result[t].kind = "ok"
            /\ Len(result[t].predictions) = 5
            /\ \A i \in 1..5 : result[t].predictions[i].predicted_price = (129 + i) * UNIT
            /\ Increasing(result[t].predictions)
            /\ result[t].trend = "neutral"
            /\ result[t].confidence > 50 * UNIT

C10_Witness ==
    \E t \in Threads :
        /\ Returned(t) /\ ~sklearn /\ ScenarioA(t)
        /\ result[t].kind = "ok"
        /\ result[t].model = "Simple Linear Regression"

(***************************************************************************)
(* The claim about _determine_trend, checked under SpecTrend               *)
(***************************************************************************)
\* C9: _determine_trend returns "bullish" exactly when the last predicted
\* price is more than 5% above the current price, "bearish" exactly when it
\* is more than 5% below, "neutral" otherwise (at exactly +5% or -5% too),
\* and "neutral" for an empty list or a current price that is not positive.
C9_TrendThresholds ==
    trend_call.stage = "done" =>
        LET ps   == trend_call.predictions
            c    == trend_call.current_price
            last == ps[Len(ps)].predicted_price
        IN  IF ps = <<>> \/ c <= 0 THEN trend_call.out = "neutral"
            ELSE /\ trend_call.out = "bullish" <=> 100 * (last - c) > 5 * c
                 /\ trend_call.out = "bearish" <=> 100 * (c - last) > 5 * c
                 /\ trend_call.out \in {"bullish", "bearish", "neutral"}

\* a call whose last predicted price is exactly 5% above the current price
C9_Witness ==
    /\ trend_call.stage = "done"
    /\ trend_call.predictions # <<>>
    /\ trend_call.current_price > 0
    /\ 100 * (trend_call.predictions[Len(trend_call.predictions)].predicted_price
                 - trend_call.current_price) = 5 * trend_call.current_price
    /\ trend_call.out = "neutral"

(***************************************************************************)
(* The claim about concurrent calls, checked under SpecConc                *)
(***************************************************************************)
\* what the call with the local variables l returns when no other call
\* touches the instance: the scaler and the coefficients are its own
AloneResult(lib, l) ==
    LET own_scaler_y == FitScaler(l.y)
        own_simple   == FitSimple(l.feature_cols, l.x_days, l.y)
        metrics      == TrainMetrics(lib, l.y, TrainPredictions(lib, l, own_scaler_y, own_simple))
        predictions  == [i \in 1..l.days_ahead |->
                            ForecastPoint(RawForecast(lib, l, own_scaler_y, own_simple, i),
                                          metrics.residual_std, l.max_date, i)]
    IN  SuccessResult(lib, [metrics |-> metrics, predictions |-> predictions] @@ l)

\* C1: calls of predict_prices that run at the same time do not interfere:
\* each returns what it would have returned alone, for the same history and
\* horizon and the same answers of the regression library.  The scalers and
\* the fallback coefficients are attributes of the shared instance, written
\* by one call and read by the other.
C1_NoInterference ==
    \A t \in Threads :
        Returned(t) /\ loc[t].kind = "call" /\ ~loc[t].lib_fault =>
            result[t] = AloneResult(sklearn, loc[t])

(***************************************************************************)
(* Claims about get_trend_analysis and the risk metrics, checked under     *)
(* SpecRisk                                                                *)
(***************************************************************************)
Analysed == risk_call.stage = "done" /\ risk_call.fn = "analysis"

Reported == Analysed /\ risk_call.out.kind = "report"

\* a fetched window whose closes are all present and one positive value
FlatWindow(h) ==
    /\ h.kind = "prices"
    /\ \A i \in 1..Len(h.rows) :
          ~h.rows[i].cnull /\ h.rows[i].close > 0 /\ h.rows[i].close = h.rows[1].close

ZeroRisk(section) ==
    /\ section.trend = "neutral"
    /\ section.metrics.has
    /\ section.metrics.volatility = 0
    /\ section.metrics.sharpe_ratio = 0
    /\ section.metrics.max_drawdown = 0

\* C11: a window of identical positive closes (Scenario B: 20 of them) has
\* volatility 0, sharpe_ratio 0, max_drawdown 0 and trend "neutral"; and
\* _calculate_sharpe_ratio returns 0 whenever it is given fewer than 2
\* returns or returns that do not deviate from one another.
C11_FlatSeriesZeroRisk ==
    /\ Reported /\ FlatWindow(risk_call.history_1m) => ZeroRisk(risk_call.out.short_term)
    /\ Reported /\ FlatWindow(risk_call.history_3m) => ZeroRisk(risk_call.out.long_term)
    /\ /\ risk_call.stage = "done" /\ risk_call.fn = "sharpe"
       /\ \/ Len(risk_call.returns) < 2
          \/ \A i \in 1..Len(risk_call.returns) : risk_call.returns[i] = risk_call.returns[1]
       => risk_call.out = 0

\* Scenario B on both windows: 20 identical closes each, and a report
C11_Witness ==
    /\ Reported
    /\ FlatWindow(risk_call.history_1m) /\ Len(risk_call.history_1m.rows) = 20
    /\ FlatWindow(risk_call.history_3m) /\ Len(risk_call.history_3m.rows) = 20
    /\ risk_call.out.short_term.metrics.sharpe_ratio = 0

\* the closes of a window that are present and positive
NumValid(h) == Count(h.rows, LAMBDA r : ~r.cnull /\ r.close > 0)

\* C15: get_trend_analysis never raises; it returns an error result without
\* the short_term, long_term and technical sections when a fetch returns
\* nothing (or raises), when a price list is empty, or when the 1M window
\* has fewer than 5 valid closes or the 3M window fewer than 10; otherwise
\* it returns a report with the three sections.
C15_AnalysisErrorOrReport ==
    Analysed =>
        /\ ~risk_call.escaped
        /\ IF \/ risk_call.history_1m.kind # "prices"
              \/ risk_call.history_3m.kind # "prices"
              \/ NumValid(risk_call.history_1m) < 5
              \/ NumValid(risk_call.history_3m) < 10
           THEN /\ risk_call.out.kind = "error"
                /\ risk_call.out.error # ""
                /\ DOMAIN risk_call.out \cap {"short_term", "long_term", "technical"} = {}
           ELSE /\ risk_call.out.kind = "report"
                /\ {"short_term", "long_term", "technical"} \subseteq DOMAIN risk_call.out

\* a 1M window of 5 rows with one zero close, against a good 3M window: an
\* error result
C15_Witness ==
    /\ Analysed
    /\ risk_call.history_1m.kind = "prices" /\ risk_call.history_3m.kind = "prices"
    /\ Len(risk_call.history_1m.rows) = 5 /\ NumValid(risk_call.history_1m) = 4
    /\ NumValid(risk_call.history_3m) >= 10
    /\ risk_call.out.kind = "error"

\* what C16 says the trend of a window is: its change in percent against
\* +pct and -pct
TrendAsClaimed(h, pct) ==
    LET prices == ValidCloses(h.rows)
        change == prices[Len(prices)] - prices[1]
    IN  IF 100 * change > pct * prices[1] THEN "bullish"
        ELSE IF 100 * change < 0 - pct * prices[1] THEN "bearish"
        ELSE "neutral"

\* C16 as claimed: the short-term trend is "bullish" iff the 1M window's
\* (last - first) / first * 100 is above 3, "bearish" iff it is below -3,
\* "neutral" otherwise; the long-term trend likewise on the 3M window with 8
\* and -8.
C16_TrendByChange ==
    Reported =>
        /\ risk_call.out.short_term.trend = TrendAsClaimed(risk_call.history_1m, 3)
        /\ risk_call.out.long_term.trend = TrendAsClaimed(risk_call.history_3m, 8)

\* the trend of a window by its change in percent rounded to two decimals
TrendByRounded(h, pct) ==
    LET prices == ValidCloses(h.rows)
        change_pct == Round2(DivFP(100 * (prices[Len(prices)] - prices[1]), prices[1]))
    IN  IF change_pct > pct * UNIT THEN "bullish"
        ELSE IF change_pct < 0 - pct * UNIT THEN "bearish"
        ELSE "neutral"

\* C16 as amended: the short-term trend is "bullish" iff the 1M window's
\* change_pct as reported, (last - first) / first * 100 rounded to two
\* decimals, is above 3, "bearish" iff it is below -3, "neutral" otherwise;
\* the long-term trend likewise on the 3M window with 8 and -8; each depends
\* on its own window only.
C16_TrendByRoundedChange ==
    Reported =>
        /\ risk_call.out.short_term.trend = TrendByRounded(risk_call.history_1m, 3)
        /\ risk_call.out.short_term.metrics.change_pct
              = Round2(risk_call.out.short_term.metrics.change_pct)
        /\ risk_call.out.long_term.trend = TrendByRounded(risk_call.history_3m, 8)

\* a 1M window that rose 3.004%, reported as 3.0 and "neutral", beside a 3M
\* window that rose 8.01%, "bullish"
C16_Witness ==
    /\ Reported
    /\ LET p == ValidCloses(risk_call.history_1m.rows)
       IN  p[Len(p)] - p[1] = 3004 /\ p[1] = 100 * UNIT
    /\ risk_call.out.short_term.trend = "neutral"
    /\ risk_call.out.long_term.trend = "bullish"

\* the highest of the first t prices
RunningPeak(prices, t) ==
    CHOOSE x \in {prices[i] : i \in 1..t} : \A j \in 1..t : prices[j] <= x

\* the drawdowns in percent, wherever the running peak is positive
Drawdowns(prices) ==
    {DivFP(100 * (RunningPeak(prices, t) - prices[t]), RunningPeak(prices, t)) :
        t \in {u \in 1..Len(prices) : RunningPeak(prices, u) > 0}}

\* C17: _calculate_max_drawdown returns the largest (peak - price) / peak *
\* 100 over the series, taken wherever the running peak is positive (to two
\* decimals), and 0 for fewer than 2 prices or a peak that is never
\* positive; for positive prices it lies in [0, 100], and it is 0 for a
\* series that never falls.
C17_MaxDrawdown ==
    risk_call.stage = "done" /\ risk_call.fn = "drawdown" =>
        LET prices == risk_call.prices
        IN  /\ IF Len(prices) < 2 \/ Drawdowns(prices) = {} THEN risk_call.out = 0
               ELSE \E d \in Drawdowns(prices) :
                       /\ \A e \in Drawdowns(prices) : e <= d
                       /\ risk_call.out = Round2(d)
            /\ (\A i \in 1..Len(prices) : prices[i] > 0)
                  => risk_call.out >= 0 /\ risk_call.out <= 100 * UNIT
            /\ (\A i \in 1..(Len(prices) - 1) : prices[i] <= prices[i + 1])
                  => risk_call.out = 0

\* a series that rises to a peak and falls to a quarter of it: 75
C17_Witness ==
    /\ risk_call.stage = "done" /\ risk_call.fn = "drawdown"
    /\ risk_call.prices = <<UNIT, 4 * UNIT, UNIT>>
    /\ risk_call.out = 75 * UNIT

(***************************************************************************)
(* Claims about calculate_correlation_matrix, checked under SpecCorr       *)
(***************************************************************************)
Correlated == corr_call.stage = "done" /\ corr_call.out.kind = "report"

\* the requested entries that qualify: history found, at least 10 closes
\* present and positive
Qualifies(i) ==
    /\ corr_call.fetch[corr_call.symbols[i]].kind = "prices"
    /\ Len(ValidCloses(corr_call.fetch[corr_call.symbols[i]].rows)) >= 10

Qualifying == {i \in 1..Len(corr_call.symbols) : Qualifies(i)}

\* C12: the matrix of a correlation report is square over the reported
\* symbols, symmetric, has 1.0 in every diagonal entry and every entry in
\* [-1, 1], also when a qualifying asset has a constant price series.
C12_MatrixWellFormed ==
    Correlated =>
        LET n == Len(corr_call.out.symbols)
            matrix == corr_call.out.matrix
        IN  /\ Len(matrix) = n
            /\ \A i \in 1..n :
                  /\ Len(matrix[i]) = n
                  /\ matrix[i][i] = CorrUnit
                  /\ \A j \in 1..n :
                        /\ matrix[i][j] = matrix[j][i]
                        /\ matrix[i][j] >= 0 - CorrUnit /\ matrix[i][j] <= CorrUnit

\* the positions of the report's pair list that name the symbols at i and j
PairsAt(i, j) ==
    {k \in 1..Len(corr_call.out.pairs) :
        /\ corr_call.out.pairs[k].symbol1 = corr_call.out.symbols[i]
        /\ corr_call.out.pairs[k].symbol2 = corr_call.out.symbols[j]}

SortedByMagnitude ==
    \A k \in 1..(Len(corr_call.out.pairs) - 1) :
        Abs(corr_call.out.pairs[k].correlation) >= Abs(corr_call.out.pairs[k + 1].correlation)

\* C13 as claimed: a correlation report over n symbols lists all n(n-1)/2
\* pairs i < j, each once and with the matrix entry at (i, j), sorted by
\* non-increasing absolute correlation.
C13_AllPairsSorted ==
    Correlated =>
        LET n == Len(corr_call.out.symbols)
        IN  /\ 2 * Len(corr_call.out.pairs) = n * (n - 1)
            /\ \A i \in 1..n : \A j \in (i + 1)..n :
                  /\ Cardinality(PairsAt(i, j)) = 1
                  /\ \A k \in PairsAt(i, j) :
                        corr_call.out.pairs[k].correlation = corr_call.out.matrix[i][j]
            /\ SortedByMagnitude

\* the returns of the reported symbol at i vary over the aligned rows
Varies(i) ==
    LET prices == ValidCloses(corr_call.fetch[corr_call.out.symbols[i]].rows)
        recent == SubSeq1(prices, Len(prices) - corr_call.out.data_points, Len(prices))
    IN  \E a, b \in 1..(Len(recent) - 1) :
            recent[a + 1] * recent[b] # recent[b + 1] * recent[a]

\* C13 as amended: a correlation report lists every pair i < j of reported
\* symbols whose returns both vary, each once and with the matrix entry at
\* (i, j), and lists no other pair; the list is sorted by non-increasing
\* absolute correlation.  A pair with a symbol whose returns do not vary
\* (its correlation is undefined) is left out, while the matrix holds 0 for
\* it.
C13_DefinedPairsSorted ==
    Correlated =>
        LET n == Len(corr_call.out.symbols)
        IN  /\ \A i \in 1..n : \A j \in (i + 1)..n :
                  IF Varies(i) /\ Varies(j)
                  THEN /\ Cardinality(PairsAt(i, j)) = 1
                       /\ \A k \in PairsAt(i, j) :
                             corr_call.out.pairs[k].correlation = corr_call.out.matrix[i][j]
                  ELSE PairsAt(i, j) = {} /\ corr_call.out.matrix[i][j] = 0
            /\ Len(corr_call.out.pairs)
                  = Cardinality({ij \in (1..n) \X (1..n) :
                                    ij[1] < ij[2] /\ Varies(ij[1]) /\ Varies(ij[2])})
            /\ SortedByMagnitude

\* three reported symbols with three listed pairs, the strongest of them a
\* negative correlation found last in the matrix
C13_Witness ==
    /\ Correlated
    /\ Len(corr_call.out.symbols) = 3
    /\ Len(corr_call.out.pairs) = 3
    /\ corr_call.out.pairs[1].correlation = 0 - CorrUnit
    /\ corr_call.out.pairs[1].symbol1 = corr_call.out.symbols[2]
    /\ corr_call.out.pairs[1].symbol2 = corr_call.out.symbols[3]

\* C14: with at least 2 qualifying entries in the request the result is a
\* report whose symbols are the qualifying entries in request order and
\* whose warnings hold one message per excluded entry; with fewer than 2
\* the result is an error with per-symbol details and no matrix.
C14_PartialFailure ==
    corr_call.stage = "done" =>
        IF Cardinality(Qualifying) >= 2
        THEN /\ corr_call.out.kind = "report"
             /\ corr_call.out.symbols
                   = SelectIdx(corr_call.symbols,
                               [i \in 1..Len(corr_call.symbols) |-> Qualifies(i)], 1)
             /\ Len(corr_call.out.warnings)
                   = Len(corr_call.symbols) - Cardinality(Qualifying)
        ELSE /\ corr_call.out.kind = "error"
             /\ Len(corr_call.out.details) = Len(corr_call.symbols) - Cardinality(Qualifying)
             /\ "matrix" \notin DOMAIN corr_call.out

\* the fetch in which every qualifying series is cut to its N most recent
\* closes, N the shortest qualifying length
RecentOnly ==
    LET lens == {Len(ValidCloses(corr_call.fetch[corr_call.symbols[i]].rows)) : i \in Qualifying}
        N == CHOOSE m \in lens : \A l \in lens : m <= l
    IN  [s \in Symbols |->
            IF \E i \in Qualifying : corr_call.symbols[i] = s
            THEN LET prices == ValidCloses(corr_call.fetch[s].rows)
                 IN  Fetched([k \in 1..N |->
                                 [close |-> prices[Len(prices) - N + k], cnull |-> FALSE]])
            ELSE corr_call.fetch[s]]

\* C18: the correlation is computed over the N most recent closes of every
\* qualifying series, N the shortest qualifying length: the report has
\* data_points = N - 1, and it is the report the same request gets when the
\* earlier closes of the longer series are not there.
C18_MostRecentN ==
    Correlated =>
        /\ \E i \in Qualifying :
              /\ corr_call.out.data_points
                    = Len(ValidCloses(corr_call.fetch[corr_call.symbols[i]].rows)) - 1
              /\ \A j \in Qualifying :
                    Len(ValidCloses(corr_call.fetch[corr_call.symbols[j]].rows))
                        > corr_call.out.data_points
        /\ corr_call.out = calculate_correlation_matrix(corr_call.symbols, RecentOnly)

\* a twelve-close series correlated with a ten-close one: 9 return rows, and
\* the two series move against each other on each of them
C18_Witness ==
    /\ Correlated
    /\ \E i, j \in Qualifying :
          /\ Len(ValidCloses(corr_call.fetch[corr_call.symbols[i]].rows)) = 12
          /\ Len(ValidCloses(corr_call.fetch[corr_call.symbols[j]].rows)) = 10
    /\ Len(corr_call.out.symbols) = 2
    /\ corr_call.out.data_points = 9
    /\ corr_call.out.matrix[1][2] = 0 - CorrUnit

(***************************************************************************)
(* The claim about calls made one after another, checked under SpecSeq     *)
(***************************************************************************)
\* what the regression library answered to the call with the locals l
LibAnswers(l) ==
    IF l.kind = "call" /\ "model" \in DOMAIN l THEN <<l.model, l.cv_r2, l.cv_std>> ELSE <<>>

NoLibFault(t) == loc[t].kind = "call" => ~loc[t].lib_fault

\* C19: the engine is stateless across sequential calls: what a
\* predict_prices call on the shared instance returns (forecast and trend
\* label) for a history and horizon is what it would return on a fresh
\* instance, whatever call was made before it, so two calls with identical
\* inputs (and identical answers from the regression library) return
\* identical results, with the library and with the fallback model.
C19_SequentialCallsStateless ==
    /\ \A t \in Threads :
          Returned(t) /\ loc[t].kind = "call" /\ ~loc[t].lib_fault =>
              result[t] = AloneResult(sklearn, loc[t])
    /\ \A t, u \in Threads :
          /\ Returned(t) /\ Returned(u)
          /\ inp[t] = inp[u]
          /\ NoLibFault(t) /\ NoLibFault(u)
          /\ LibAnswers(loc[t]) = LibAnswers(loc[u])
          => result[t] = result[u]

\* two calls, one after the other, on the fallback model and on different
\* histories: both forecast, and the forecasts differ
C19_Witness ==
    /\ ~sklearn
    /\ calls = 2
    /\ \A t \in Threads : Returned(t) /\ result[t].kind = "ok"
    /\ inp[1].hist # inp[2].hist
    /\ result[1].predictions # result[2].predictions
    /\ result[1].trend # result[2].trend

(***************************************************************************)
(* The claim about _select_features, checked under SpecSelect              *)
(***************************************************************************)
\* where a name stands in the priority order (0: nowhere)
Priority(f) ==
    IF \E k \in 1..Len(potential_features) : potential_features[k] = f
    THEN CHOOSE k \in 1..Len(potential_features) : potential_features[k] = f
    ELSE 0

\* the column f of the table is there and at least 5 of its last 10 rows
\* hold a value
Usable(f) ==
    /\ f \in select_call.df.cols
    /\ Cardinality({i \in 1..select_call.n :
                        i > select_call.n - 10 /\ ~select_call.df.cell[f][i].nan}) >= 5

\* C20: _select_features returns a non-empty list that is a subsequence of
\* the priority order; a candidate is in it iff its column exists and at
\* least 5 of its last 10 rows are non-missing; when no candidate qualifies
\* the list is ['days'] alone.
C20_SelectedFeatures ==
    select_call.stage = "done" =>
        LET out == select_call.out
            candidates == {potential_features[k] : k \in 1..Len(potential_features)}
        IN  /\ out # <<>>
            /\ \A a \in 1..Len(out) : Priority(out[a]) > 0
            /\ \A a, b \in 1..Len(out) : a < b => Priority(out[a]) < Priority(out[b])
            /\ IF \E f \in candidates : Usable(f)
               THEN \A f \in candidates : (\E a \in 1..Len(out) : out[a] = f) <=> Usable(f)
               ELSE out = <<"days">>

\* days is missing from the table, lag_7 has 5 values in its last 10 rows,
\* rsi has 4, day_of_week is complete: lag_7 and day_of_week are selected
C20_Witness ==
    /\ select_call.stage = "done"
    /\ "days" \notin select_call.df.cols
    /\ Usable("lag_7") /\ select_call.df.cell["lag_7"][7].nan
    /\ "rsi" \in select_call.df.cols /\ ~Usable("rsi")
    /\ select_call.out = <<"lag_7", "day_of_week">>

(***************************************************************************)
(* The claim about _create_features, checked under SpecFeat                *)
(***************************************************************************)
Featured == feat_call.stage = "done"

\* the column f is in the table made from the series
HasColumn(f) == f \in feat_call.out.cols

\* the columns that need a window of w rows
WindowColumns(w) ==
    CASE w = 1  -> {"lag_1"}
      [] w = 3  -> {"lag_3"}
      [] w = 5  -> {"lag_5", "rolling_mean_5", "rolling_std_5"}
      [] w = 7  -> {"lag_7"}
      [] w = 10 -> {"rolling_mean_10", "rolling_std_10", "volatility"}
      [] w = 14 -> {"rsi"}
      [] w = 20 -> {"rolling_mean_20"}

WindowSizes == {1, 3, 5, 7, 10, 14, 20}

\* C21 as claimed: each windowed feature is computed whenever its window
\* fits the series: rsi for every series of at least 14 rows, volatility
\* for at least 10 rows, lag_k and rolling_w for at least k and w rows.
C21_ColumnsWhenWindowFits ==
    Featured =>
        \A w \in WindowSizes : \A f \in WindowColumns(w) :
            Len(feat_call.df) >= w => HasColumn(f)

\* C21 as amended: each windowed feature is computed exactly when the series
\* is longer than its window: rsi for more than 14 rows, volatility for
\* more than 10, lag_k and rolling_w for more than k and w rows; a series
\* of exactly as many rows as the window gets no such column.
C21_ColumnsWhenLongerThanWindow ==
    Featured =>
        \A w \in WindowSizes : \A f \in WindowColumns(w) :
            HasColumn(f) <=> Len(feat_call.df) > w

\* a series of exactly 14 rows: no rsi column, though the shorter windows
\* have theirs
C21_Witness ==
    /\ Featured
    /\ Len(feat_call.df) = 14
    /\ ~HasColumn("rsi")
    /\ HasColumn("volatility") /\ HasColumn("lag_7") /\ HasColumn("rolling_mean_10")

(***************************************************************************)
(* More claims about predict_prices, checked under Spec                    *)
(***************************************************************************)
\* the call of thread 1 ran the temporal cross-validation
Validated == sklearn /\ Min2(5, Len(loc[1].y) \div 10) >= 2

\* C22: cross-validation runs with min(5, floor(n / 10)) folds over the n
\* training rows and is skipped below 2 folds; metrics.cv_r2 is null
\* exactly when validation was skipped (n < 20 or the fallback model) and
\* is the mean fold score otherwise; confidence uses the cross-validated
\* score exactly when it is reported.
C22_CvReportedWhenRun ==
    Succeeded(1) =>
        /\ loc[1].cv_r2.some <=> Validated
        /\ Validated <=> (sklearn /\ Len(loc[1].y) >= 20)
        /\ result[1].metrics.cv_r2.some <=> Validated
        /\ result[1].metrics.cv_r2.some => result[1].metrics.cv_r2.v = loc[1].cv_r2.v
        /\ result[1].confidence
              = Round2(Confidence(result[1].metrics.cv_r2, loc[1].metrics.train_r2,
                                  loc[1].metrics.residual_std, loc[1].y[Len(loc[1].y)]))

\* the value of the selected feature col in the feature row of step t
FutureValue(t, col) ==
    loc[1].x_future[t][CHOOSE k \in 1..Len(loc[1].feature_cols) : loc[1].feature_cols[k] = col]

Selected(col) == \E k \in 1..Len(loc[1].feature_cols) : loc[1].feature_cols[k] = col

\* the value of the selected feature col in the last training row
LastTrainValue(col) ==
    loc[1].last_row[CHOOSE k \in 1..Len(loc[1].feature_cols) : loc[1].feature_cols[k] = col]

\* C23: the forecast is a one-step-ahead chain: at step 1 every selected
\* lag feature is the last known close, at step t > 1 it is the
\* predicted_price of step t - 1; days is last_days + t, day_of_week the
\* weekday of the forecast date, and the rolling, momentum, rsi and
\* volatility features keep their value of the last training row.
C23_OneStepAheadChain ==
    pc[1] \in {"forecast", "finish", "done"} /\ loc[1].kind = "call" /\ "x_future" \in DOMAIN loc[1] =>
        /\ Len(loc[1].x_future) = Len(loc[1].predictions)
        /\ \A t \in 1..Len(loc[1].x_future) :
            \A k \in 1..Len(loc[1].feature_cols) :
              LET col == loc[1].feature_cols[k]
                  v == loc[1].x_future[t][k]
              IN  CASE col = "days" -> v = loc[1].x_days[Len(loc[1].x_days)] + t
                    [] col \in {"lag_1", "lag_3", "lag_5", "lag_7"} ->
                         IF t = 1 THEN v = loc[1].y[Len(loc[1].y)]
                         ELSE v = loc[1].predictions[t - 1].predicted_price
                    [] col = "day_of_week" -> v = (loc[1].predictions[t].date) % 7
                    [] OTHER -> v = LastTrainValue(col)

\* a forecast of three steps or more with lag_1 and a rolling mean among
\* the features, whose third step is fed the second step's price and not
\* the last close
C23_Witness ==
    /\ Succeeded(1)
    /\ Len(loc[1].x_future) >= 3
    /\ Selected("lag_1") /\ Selected("rolling_mean_5") /\ Selected("day_of_week")
    /\ FutureValue(3, "lag_1") = loc[1].predictions[2].predicted_price
    /\ FutureValue(3, "lag_1") # loc[1].y[Len(loc[1].y)]
    /\ FutureValue(3, "rolling_mean_5") = LastTrainValue("rolling_mean_5")

ResultFields ==
    {"kind", "current_price", "predictions", "trend", "confidence", "prediction_days",
     "metrics", "historical_volatility", "features_used", "data_points", "warnings",
     "model"}

PointFields == {"date", "predicted_price", "lower_bound", "upper_bound"}

\* slope and intercept of the least-squares line of the training closes on
\* their days: cov(days, close) / var(days), 0 when var(days) is 0, and
\* mean(close) - slope * mean(days)
LeastSquares(x_days, y) ==
    LET n == Len(y)
        x == [i \in 1..n |-> x_days[i] * UNIT]
        cov_n == SumSeq([i \in 1..n |-> MulFP(x[i] - Mean(x), y[i] - Mean(y))])
        var_n == SumSeq([i \in 1..n |-> MulFP(x[i] - Mean(x), x[i] - Mean(x))])
        slope == IF var_n = 0 THEN 0 ELSE DivFP(cov_n, var_n)
    IN  [slope |-> slope, intercept |-> Mean(y) - MulFP(slope, Mean(x))]

\* C24: without the regression library predict_prices is a drop-in: the
\* result has the fields of the regularized path and as many forecast
\* points of the same shape; each predicted_price is max(0.01, slope *
\* (last_days + t) + intercept), to two decimals, with the least-squares
\* slope and intercept of close on days; cv_r2 is null.
C24_FallbackDropIn ==
    Succeeded(1) =>
        /\ DOMAIN result[1] = ResultFields
        /\ Len(result[1].predictions) = inp[1].days_ahead
        /\ \A t \in 1..Len(result[1].predictions) :
              DOMAIN result[1].predictions[t] = PointFields
        /\ ~sklearn =>
              /\ ~result[1].metrics.cv_r2.some
              /\ result[1].model = "Simple Linear Regression"
              /\ \A t \in 1..Len(result[1].predictions) :
                    LET line == LeastSquares(loc[1].x_days, loc[1].y)
                        last_days == loc[1].x_days[Len(loc[1].x_days)]
                    IN  result[1].predictions[t].predicted_price
                          = Round2(Max2(CENT, line.slope * (last_days + t) + line.intercept))

\* a fallback forecast of the longest horizon on a falling series, its last
\* price above the floor
C24_Witness ==
    /\ ~sklearn
    /\ Succeeded(1)
    /\ Len(result[1].predictions) = MaxDays
    /\ LeastSquares(loc[1].x_days, loc[1].y).slope < 0
    /\ result[1].predictions[MaxDays].predicted_price > CENT
    /\ result[1].predictions[MaxDays].predicted_price < result[1].predictions[1].predicted_price

(***************************************************************************)
(* The claim about the data-loss warning, checked under SpecClean          *)
(***************************************************************************)
\* the rows of the raw frame that the cleaning keeps: the date parses and
\* the close is there after interpolation
RowsKept == Len(DropNullPrices(FillPrices(DropBadDates(clean.frame.rows))))

Warned(w) == \E k \in 1..Len(clean.first.warnings) : clean.first.warnings[k] = w

\* C25: _preprocess_data appends the data-loss warning exactly when the
\* cleaned row count is at least 10 and below 70% of the original row
\* count; the cleaned series is still returned with it; when fewer than 10
\* rows remain the call fails and returns no warnings.
C25_DataLossWarning ==
    clean.stage \in {"once", "twice"} /\ {"date", "close"} \subseteq clean.frame.cols =>
        IF RowsKept < 10
        THEN /\ clean.first.err = "insufficient_after_cleaning"
             /\ clean.first.warnings = <<>>
             /\ clean.first.df = <<>>
        ELSE /\ clean.first.err = ""
             /\ Len(clean.first.df) = RowsKept
             /\ Warned("data_loss") <=> 10 * RowsKept < 7 * Len(clean.frame.rows)

\* 17 rows of which the first 7 have no valid date: the 10 rows left are
\* returned with the data-loss warning
C25_Witness ==
    /\ Cleaned
    /\ Len(clean.frame.rows) = 17
    /\ Len(clean.first.df) = 10
    /\ Warned("data_loss") /\ Warned("invalid_dates")

(***************************************************************************)
(* The claim about the length of the history, checked under SpecLen        *)
(***************************************************************************)
InsufficientData(r) ==
    /\ r.kind = "error"
    /\ r.error \in {"insufficient_points", "insufficient_after_cleaning",
                     "insufficient_after_features"}

HistoryRows(t) == Len(inp[t].hist.frame.rows)

\* C26: success is monotone in the length of the history: over gap-free
\* daily series of distinct positive closes, when predict_prices returns
\* forecasts for a series of n rows it does not return an insufficient-data
\* error for a series of more than n rows.
C26_SuccessMonotoneInLength ==
    \A t, u \in Threads :
        /\ Returned(t) /\ Returned(u)
        /\ result[t].kind = "ok"
        /\ HistoryRows(u) > HistoryRows(t)
        => ~InsufficientData(result[u])

(***************************************************************************)
(* Claims about the alerts, checked under SpecOverlap and SpecAlerts       *)
(***************************************************************************)
Events(r, id) == {i \in DOMAIN run[r].log : run[r].log[i].id = id}

Notifications(r, id) == {i \in Events(r, id) : run[r].log[i].notified}

HasStamp(alert) == alert.triggered_at # "None" /\ alert.triggered_price # NoPrice

Cleared(alert) == alert.triggered_at = "None" /\ alert.triggered_price = NoPrice

\* C27: when two check_all_alerts runs overlap, an alert that was active when
\* they started and whose condition holds is notified and moved to
\* 'triggered' at most once.
C27_NotifiedAtMostOnce ==
    \A id \in DOMAIN alerts :
        Cardinality(Notifications(1, id)) + Cardinality(Notifications(2, id)) <= 1

\* C28: after any sequence of create_alert, update_alert, disable_alert,
\* enable_alert and process_alert, an alert whose status is 'triggered' has
\* triggered_at and triggered_price set, and an alert that was just
\* re-enabled is 'active' with both fields cleared.
C28_TriggeredHasStamp ==
    [][/\ \A id \in DOMAIN alerts' :
             alerts'[id].status = "triggered" => HasStamp(alerts'[id])
       /\ \A id \in AlertIds :
             enable_alert(id) => alerts'[id].status = "active" /\ Cleared(alerts'[id])]_vars

\* C29: in sequential use check_all_alerts evaluates only alerts whose
\* status is 'active'; an alert whose condition holds is notified and moved
\* to 'triggered' in that run, delivered or not; an alert whose condition
\* does not hold is left as it was; a triggered or disabled alert is not
\* evaluated.
C29_ActiveEvaluatedAndTriggered ==
    \A i \in DOMAIN run[1].log :
        LET e == run[1].log[i]
        IN  /\ e.status = "active"
            /\ e.should_trigger => e.notified /\ alerts[e.id].status = "triggered"
            /\ ~e.should_trigger => ~e.notified /\ alerts[e.id].status = "active"

ActiveWithKey(r, key) ==
    {i \in DOMAIN run[r].active : KeyOf(alerts[run[r].active[i]]) = key}

Lookups(r, key) == {i \in DOMAIN run[r].lookups : run[r].lookups[i].key = key}

Priced(r, key) == \E i \in Lookups(r, key) : run[r].lookups[i].priced

Unpriced(r) == {i \in DOMAIN run[r].lookups : ~run[r].lookups[i].priced}

RECURSIVE ErrorsOwed(_, _)
ErrorsOwed(r, lookups) ==
    IF lookups = {} THEN 0
    ELSE LET i == CHOOSE j \in lookups : TRUE
         IN  Cardinality(ActiveWithKey(r, run[r].lookups[i].key)) + ErrorsOwed(r, lookups \ {i})

\* C30: the counters a run returns satisfy checked + errors = the number of
\* alerts active when it started and triggered <= checked; every such alert
\* is counted once: as checked when a price was obtained for its (symbol,
\* asset_type) group, as an error when the lookup gave nothing or raised.
C30_CountersAddUp ==
    run[1].pc = "returned" =>
        LET res == run[1].results
        IN  /\ res.checked + res.errors = Len(run[1].active)
            /\ res.triggered <= res.checked
            /\ res.checked = Len(run[1].log)
            /\ res.errors = ErrorsOwed(1, Unpriced(1))
            /\ \A i \in DOMAIN run[1].active :
                 LET id == run[1].active[i]
                     key == KeyOf(alerts[id])
                 IN  /\ Cardinality(Lookups(1, key)) = 1
                     /\ Cardinality(Events(1, id)) = IF Priced(1, key) THEN 1 ELSE 0

C30_Witness ==
    /\ run[1].pc = "returned"
    /\ run[1].results = [checked |-> 1, triggered |-> 1, errors |-> 1]

=============================================================================
